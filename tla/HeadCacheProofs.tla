-------------------------- MODULE HeadCacheProofs --------------------------
(***************************************************************************)
(* Proofs about HeadCache, for every tree of banks, every number of slots, *)
(* every retention and every order in which parts, footers, statuses,      *)
(* discards and reconnects arrive.                                         *)
(*                                                                         *)
(* What readers are served is not inductive by itself: getBlock is right   *)
(* because the maps agree with each other, the maps are right because a    *)
(* bank publishes only what is selected, and a slot is selected only while *)
(* its bank is sealed, not discarded and above the minimum.  HeadInv says  *)
(* so in three parts: MapsInv of the maps and the proof of the chain,      *)
(* BanksInv of the banks, SessionInv of what the stream discarded.  Each   *)
(* operation of banks.rs, mod.rs and coverage.rs has a lemma that says     *)
(* what it changes; the loops over slots and transactions are handled by   *)
(* induction over a set (NatSetInduction).                                 *)
(***************************************************************************)
EXTENDS HeadCache, WellFoundedInduction, FiniteSetTheorems, TLAPS

-----------------------------------------------------------------------------
(* Types. *)

NodeType == [present : BOOLEAN, link : Bank \cup {NoBank}, commitment : -1..2, invalid : BOOLEAN]

KeyType == [sig : Sig, slot : Slot, idx : Nat]

FiniteKeys == {K \in SUBSET KeyType : IsFiniteSet(K)}

HeadType ==
  [connected : BOOLEAN, highest : 0..MaxSlot, latest : 0..MaxSlot,
   banks : SUBSET Bank, metadata : SUBSET Bank, footers : SUBSET Bank, entries : SUBSET Bank,
   sealed : SUBSET Bank, observed : SUBSET Bank,
   commitment : [Bank -> Level],
   selected : [Slot -> Bank \cup {NoBank}], canonical : [Slot -> Bank \cup {NoBank}],
   discarded : SUBSET Bank,
   slotCommitment : [Slot -> -1..2], slotBlock : [Slot -> Bank \cup {NoBank}], slotFooter : SUBSET Slot,
   metaBySig : [Sig -> Bank \cup {NoBank}], sigsBySlot : [Slot -> SUBSET Sig],
   sigsByAddress : FiniteKeys, truncated : Nat,
   nodes : [Slot -> NodeType], tips : [Level -> 0..MaxSlot], proofHighest : 0..MaxSlot]

TypeOK ==
  /\ scenario \in Scenario /\ head \in HeadType
  /\ frozen \subseteq Bank /\ dropped \subseteq Bank

(* The inductive invariant. *)

\* The bank that the proof trusts at a slot.
Valid(h, s) == IF h.nodes[s].present /\ ~h.nodes[s].invalid THEN h.nodes[s].link ELSE NoBank

\* The maps by signature and by slot agree, and agree with the block of the slot.
SignaturesAgree(h) ==
  /\ \A x \in Sig : h.metaBySig[x] # NoBank =>
        /\ x \in h.sigsBySlot[slotOf[h.metaBySig[x]]]
        /\ x \in Range(txsOf[h.metaBySig[x]])
        /\ h.slotBlock[slotOf[h.metaBySig[x]]] = h.metaBySig[x]
  /\ \A s \in Slot : \A x \in h.sigsBySlot[s] : h.metaBySig[x] # NoBank /\ slotOf[h.metaBySig[x]] = s

\* A block is one of its slot that reached the minimum.
BlocksPlaced(h) ==
  \A s \in Slot : h.slotBlock[s] # NoBank =>
    slotOf[h.slotBlock[s]] = s /\ h.commitment[h.slotBlock[s]] >= Minimum

\* A slot with a block has a commitment, so that eviction finds it; except while the
\* block of slot e is being published.
BlocksProjected(h, e) ==
  \A s \in Slot : h.slotBlock[s] # NoBank /\ s # e => h.slotCommitment[s] # -1

\* A bank that the proof trusts is the block of its slot.
NodesBacked(h) == \A s \in Slot : Valid(h, s) # NoBank => h.slotBlock[s] = Valid(h, s)

\* The maps and the proof.
MapsInv(h, e) == SignaturesAgree(h) /\ BlocksPlaced(h) /\ BlocksProjected(h, e) /\ NodesBacked(h)

\* Where the bank state tracks a slot, it selected what the maps show.
ShownIsSelected(h) ==
  \A s \in Slot : h.slotBlock[s] # NoBank /\ s >= BankFloor(h) => h.selected[s] = h.slotBlock[s]

\* A selected bank is whole, was not discarded, reached the minimum, and is shown while the
\* slot is retained.
SelectedIsShown(h) ==
  \A s \in Slot : h.selected[s] # NoBank =>
    /\ slotOf[h.selected[s]] = s /\ h.selected[s] \notin h.discarded
    /\ h.selected[s] \in h.sealed /\ h.commitment[h.selected[s]] >= Minimum
    /\ s >= MinRetained(h) => h.slotBlock[s] = h.selected[s]

\* Its footer is shown with it.
FootersShown(h) ==
  \A b \in h.footers : h.selected[slotOf[b]] = b /\ slotOf[b] >= MinRetained(h) => slotOf[b] \in h.slotFooter

\* The cluster confirms one bank of a slot.
CommittedIsCanonical(h) == \A b \in Bank : h.commitment[b] > 0 => b \in Canonical

\* A sealed bank that is confirmed and reached the minimum was selected.
SealedSelected(h) ==
  \A b \in h.sealed : h.commitment[b] >= Max({Minimum, 1}) /\ slotOf[b] >= MinRetained(h)
                        => h.selected[slotOf[b]] = b

\* A selected bank that is confirmed has all its signatures.
SelectedIsWhole(h) ==
  \A s \in Slot : h.selected[s] # NoBank /\ h.commitment[h.selected[s]] > 0 /\ s >= MinRetained(h) =>
    /\ h.slotCommitment[s] >= 1
    /\ \A x \in Range(txsOf[h.selected[s]]) : h.metaBySig[x] = h.selected[s]

\* The banks and what they show.
BanksInv(h) ==
  /\ ShownIsSelected(h) /\ SelectedIsShown(h) /\ FootersShown(h) /\ CommittedIsCanonical(h)
  /\ SealedSelected(h) /\ SelectedIsWhole(h)

\* The stream's discards are remembered; between sessions nothing is shown.
SessionInv ==
  /\ head.connected => \A b \in dropped : slotOf[b] >= BankFloor(head) => b \in head.discarded
  /\ ~head.connected => \A s \in Slot : head.slotBlock[s] = NoBank

HeadInv == MapsInv(head, 0) /\ BanksInv(head) /\ SessionInv

-----------------------------------------------------------------------------
(* Facts about numbers and sets. *)

\* Induction with the induction hypothesis as a set.
LEMMA NatSetInduction ==
  ASSUME NEW G, 0 \in G, \A n \in Nat : n \in G => n + 1 \in G
  PROVE  Nat \subseteq G
<1> DEFINE T == Nat \ G
<1>1. SUFFICES ASSUME T # {} PROVE FALSE
  OBVIOUS
<1>2. PICK x \in T : \A y \in T : <<y, x>> \notin OpToRel(<, Nat)
  <2> HIDE DEF T
  <2>1. T \subseteq Nat
    BY DEF T
  <2> QED BY <1>1, <2>1, NatLessThanWellFounded, WFMin
<1>3. x # 0 /\ x - 1 \in Nat
  BY SMT
<1>4. x - 1 \in T
  BY <1>3
<1>5. <<x - 1, x>> \in OpToRel(<, Nat)
  BY <1>3 DEF OpToRel
<1> QED BY <1>2, <1>4, <1>5

\* The larger of two numbers.
LEMMA MaxPair ==
  ASSUME NEW m \in Int, NEW n \in Int
  PROVE  Max({m, n}) = IF m >= n THEN m ELSE n
<1> DEFINE r == IF m >= n THEN m ELSE n
<1>1. r \in {m, n} /\ \A y \in {m, n} : r >= y
  OBVIOUS
<1>2. \A x \in {m, n} : (\A y \in {m, n} : x >= y) => x = r
  OBVIOUS
<1> QED BY <1>1, <1>2 DEF Max

\* What the assumption says of one bank.
LEMMA BankFacts ==
  ASSUME NEW b \in Bank
  PROVE  /\ slotOf[b] \in Slot /\ slotOf[b] \in 1..MaxSlot /\ b # NoBank
         /\ txsOf[b] \in Seq(Sig) /\ ParentSlot(b) \in 0..MaxSlot /\ ParentSlot(b) < slotOf[b]
BY HeadCacheAssumption DEF HeadCacheAssumption, Slot, ParentSlot

\* What the assumption says of the configuration.
LEMMA ScenarioFacts ==
  ASSUME scenario \in Scenario
  PROVE  Retain \in Nat \ {0} /\ PerAddress \in Nat \ {0} /\ Minimum \in Level /\ Pending \in Nat
BY HeadCacheAssumption DEF HeadCacheAssumption, Retain, PerAddress, Minimum

\* min_retained_slot is a saturating difference.
LEMMA MinRetainedValue ==
  ASSUME scenario \in Scenario, NEW h \in HeadType
  PROVE  /\ MinRetained(h) = IF h.latest >= Retain - 1 THEN h.latest - (Retain - 1) ELSE 0
         /\ MinRetained(h) \in 0..MaxSlot
<1>1. h.latest \in Nat /\ MaxSlot \in Nat /\ h.latest <= MaxSlot
  BY HeadCacheAssumption DEF HeadCacheAssumption, HeadType
<1>2. Retain \in Nat \ {0}
  BY ScenarioFacts
<1>3. MinRetained(h) = IF 0 >= h.latest - (Retain - 1) THEN 0 ELSE h.latest - (Retain - 1)
  BY <1>1, <1>2, MaxPair DEF MinRetained
<1> QED BY <1>1, <1>2, <1>3

\* The floor of the bank state: retention, and the slots that wait for a commitment.
LEMMA BankFloorValue ==
  ASSUME scenario \in Scenario, NEW h \in HeadType
  PROVE  /\ BankFloor(h) = (IF h.highest >= h.latest THEN h.highest ELSE h.latest)
                             - (Retain - 1 + (IF Minimum > 0 THEN Pending ELSE 0))
         /\ BankFloor(h) \in Int
<1>1. h.latest \in Nat /\ h.highest \in Nat
  BY HeadCacheAssumption DEF HeadCacheAssumption, HeadType
<1>2. Retain \in Nat \ {0} /\ Pending \in Nat /\ Minimum \in Level
  BY ScenarioFacts
<1> QED BY <1>1, <1>2, MaxPair DEF BankFloor, Level

-----------------------------------------------------------------------------
(* What the operations on the proof of the chain do: the rest of the head    *)
(* stays as it is, and no bank becomes trusted but the selected one.         *)

SameBanks(h, g) ==
  /\ g.connected = h.connected /\ g.highest = h.highest
  /\ g.banks = h.banks /\ g.metadata = h.metadata /\ g.footers = h.footers
  /\ g.entries = h.entries /\ g.sealed = h.sealed /\ g.observed = h.observed
  /\ g.commitment = h.commitment /\ g.selected = h.selected /\ g.canonical = h.canonical
  /\ g.discarded = h.discarded

SameMaps(h, g) ==
  /\ g.latest = h.latest
  /\ g.slotCommitment = h.slotCommitment /\ g.slotBlock = h.slotBlock /\ g.slotFooter = h.slotFooter
  /\ g.metaBySig = h.metaBySig /\ g.sigsBySlot = h.sigsBySlot

\* No bank is trusted that was not.
Weaker(h, g) == \A s \in Slot : Valid(g, s) \in {NoBank, Valid(h, s)}

\* A slot that the proof does not know, and one it begins to know.
LEMMA NewNodeTyped ==
  /\ NoNode \in NodeType /\ ~NoNode.present /\ NoNode.link = NoBank
  /\ NewNode \in NodeType /\ NewNode.present /\ NewNode.link = NoBank /\ ~NewNode.invalid
<1>1. NoNode \in NodeType /\ ~NoNode.present /\ NoNode.link = NoBank /\ ~NoNode.invalid
  BY DEF NoNode, NodeType
<1> HIDE DEF NoNode
<1> QED BY <1>1 DEF NewNode, NodeType

\* The entry of a slot, made if there is none.
LEMMA NodeTyped ==
  ASSUME NEW h \in HeadType, NEW s \in Slot
  PROVE  /\ h.nodes[s] \in NodeType /\ Node(h, s) \in NodeType
         /\ Node(h, s).present
         /\ h.nodes[s].present => Node(h, s) = h.nodes[s]
         /\ ~h.nodes[s].present => Node(h, s).link = NoBank
<1>1. NewNode \in NodeType /\ NewNode.present /\ NewNode.link = NoBank
  BY NewNodeTyped
<1>2. h.nodes[s] \in NodeType
  BY DEF HeadType
<1> QED BY <1>1, <1>2 DEF Node, NodeType

\* An invalidated slot is trusted no longer; nothing else changes.
LEMMA InvalidateNodeEffect ==
  ASSUME NEW h \in HeadType, NEW s \in Slot
  PROVE  LET g == InvalidateNode(h, s) IN
         /\ g \in HeadType /\ SameBanks(h, g) /\ SameMaps(h, g) /\ Weaker(h, g)
         /\ Valid(g, s) = NoBank
<1> DEFINE n == [Node(h, s) EXCEPT !.invalid = TRUE]
           g == [h EXCEPT !.nodes = [h.nodes EXCEPT ![s] = n]]
<1>1. InvalidateNode(h, s) = g
  BY DEF InvalidateNode, WithNode, HeadType
<1>2. n \in NodeType /\ n.invalid
  BY NodeTyped DEF NodeType
<1>3. g \in HeadType
  BY <1>2 DEF HeadType
<1>4. SameBanks(h, g) /\ SameMaps(h, g)
  BY DEF HeadType, SameBanks, SameMaps
<1>5. g.nodes = [h.nodes EXCEPT ![s] = n]
  BY DEF HeadType
<1>6. Weaker(h, g) /\ Valid(g, s) = NoBank
  BY <1>2, <1>5 DEF HeadType, Weaker, Valid
<1> QED BY <1>1, <1>3, <1>4, <1>6

\* invalidate_branch takes trust away and gives none.
LEMMA InvalidateBranchEffect ==
  ASSUME NEW h \in HeadType, NEW s \in Slot
  PROVE  LET g == InvalidateBranch(h, s) IN
         g \in HeadType /\ SameBanks(h, g) /\ SameMaps(h, g) /\ Weaker(h, g)
<1> DEFINE N == [t \in Slot |-> IF t \in Branch(h, s) THEN [Node(h, t) EXCEPT !.invalid = TRUE]
                                                       ELSE h.nodes[t]]
           g == [h EXCEPT !.nodes = N]
<1>1. InvalidateBranch(h, s) = g
  BY DEF InvalidateBranch, HeadType
<1>2. \A t \in Slot : /\ N[t] \in NodeType
                      /\ t \in Branch(h, s) => N[t].invalid
                      /\ t \notin Branch(h, s) => N[t] = h.nodes[t]
  BY NodeTyped DEF NodeType
<1>3. N \in [Slot -> NodeType]
  BY <1>2
<1> HIDE DEF N
<1>4. g \in HeadType /\ g.nodes = N /\ SameBanks(h, g) /\ SameMaps(h, g)
  BY <1>3 DEF HeadType, SameBanks, SameMaps
<1>5. Weaker(h, g)
  BY <1>2, <1>4 DEF Weaker, Valid
<1> QED BY <1>1, <1>4, <1>5

\* The selected bank is trusted, if the maps show it.
LEMMA SelectBankEffect ==
  ASSUME NEW h \in HeadType, NEW b \in Bank
  PROVE  LET g == SelectBank(h, b) IN
         /\ g \in HeadType /\ SameBanks(h, g) /\ SameMaps(h, g)
         /\ \A s \in Slot : Valid(g, s) \in {NoBank, Valid(h, s)} \/ (s = slotOf[b] /\ Valid(g, s) = b)
<1> DEFINE s  == slotOf[b]
           h1 == IF h.nodes[s].link \notin {NoBank, b} THEN InvalidateBranch(h, s) ELSE h
           n  == [NewNode EXCEPT !.link = b]
           g  == [h1 EXCEPT !.nodes = [h1.nodes EXCEPT ![s] = n]]
<1>s. s \in Slot
  BY BankFacts
<1>1. h1 \in HeadType /\ SameBanks(h, h1) /\ SameMaps(h, h1) /\ Weaker(h, h1)
  BY <1>s, InvalidateBranchEffect DEF SameBanks, SameMaps, Weaker
<1>2. n \in NodeType /\ n.link = b
  BY NewNodeTyped DEF NodeType
<1>3. SelectBank(h, b) = [h1 EXCEPT !.nodes[s] = n]
  BY DEF SelectBank, WithNode
<1> HIDE DEF h1, n, s
<1>4. SelectBank(h, b) = g
  BY <1>1, <1>3 DEF HeadType
<1>5. g \in HeadType /\ g.nodes = [h1.nodes EXCEPT ![s] = n]
  BY <1>1, <1>2, <1>s DEF HeadType
<1>6. SameBanks(h1, g) /\ SameMaps(h1, g)
  BY <1>1 DEF HeadType, SameBanks, SameMaps
<1>7. SameBanks(h, g) /\ SameMaps(h, g)
  BY <1>1, <1>6 DEF SameBanks, SameMaps
<1>8. \A t \in Slot : Valid(g, t) \in {NoBank, Valid(h1, t)} \/ (t = s /\ Valid(g, t) = b)
  BY <1>1, <1>2, <1>5 DEF Valid, HeadType
<1> QED BY <1>1, <1>4, <1>5, <1>7, <1>8 DEF Weaker, s

\* validate_parent at most invalidates a branch.
LEMMA ValidateParentEffect ==
  ASSUME NEW h \in HeadType, NEW s \in Slot, NEW p
  PROVE  LET g == ValidateParent(h, s, p) IN
         g \in HeadType /\ SameBanks(h, g) /\ SameMaps(h, g) /\ Weaker(h, g)
BY InvalidateBranchEffect DEF ValidateParent, SameBanks, SameMaps, Weaker

\* A tip moves; no slot becomes trusted.
LEMMA ObserveEffect ==
  ASSUME NEW h \in HeadType, NEW s \in Slot, NEW c \in Level
  PROVE  LET g == Observe(h, s, c) IN
         g \in HeadType /\ SameBanks(h, g) /\ SameMaps(h, g) /\ Weaker(h, g)
<1> DEFINE T == [l \in Level |-> IF l <= c /\ s > h.tips[l] THEN s ELSE h.tips[l]]
           g == [h EXCEPT !.tips = T]
<1>1. Observe(h, s, c) = g
  BY DEF Observe, HeadType
<1>2. T \in [Level -> 0..MaxSlot]
  BY DEF HeadType, Slot
<1> HIDE DEF T
<1>3. g \in HeadType /\ SameBanks(h, g) /\ SameMaps(h, g) /\ g.nodes = h.nodes
  BY <1>2 DEF HeadType, SameBanks, SameMaps
<1> QED BY <1>1, <1>3 DEF Weaker, Valid

\* A slot's commitment rises; its link stays.
LEMMA PublishNodeEffect ==
  ASSUME NEW h \in HeadType, NEW s \in Slot, NEW c \in Level
  PROVE  LET g == PublishNode(h, s, c) IN
         g \in HeadType /\ SameBanks(h, g) /\ SameMaps(h, g) /\ Weaker(h, g)
<1> DEFINE o == Node(h, s)
           n == [o EXCEPT !.commitment = IF c >= o.commitment THEN c ELSE o.commitment]
           g == [h EXCEPT !.nodes = [h.nodes EXCEPT ![s] = n]]
<1>o. o \in NodeType
  BY NodeTyped
<1>1. PublishNode(h, s, c) = g
  BY <1>o DEF PublishNode, WithNode, HeadType, NodeType
<1>2. n \in NodeType /\ n.link = o.link /\ n.invalid = o.invalid
  BY <1>o DEF NodeType, Level
<1> HIDE DEF n
<1>3. g \in HeadType /\ g.nodes = [h.nodes EXCEPT ![s] = n]
  BY <1>2 DEF HeadType
<1>4. SameBanks(h, g) /\ SameMaps(h, g)
  BY DEF HeadType, SameBanks, SameMaps
<1>5. \A t \in Slot : t # s => g.nodes[t] = h.nodes[t]
  BY <1>3 DEF HeadType
<1>6. g.nodes[s] = n
  BY <1>3 DEF HeadType
<1>7. Weaker(h, g)
  BY <1>2, <1>5, <1>6, NodeTyped DEF Weaker, Valid
<1> QED BY <1>1, <1>3, <1>4, <1>7

\* Slots leave the proof; none becomes trusted.
LEMMA RetainNodesEffect ==
  ASSUME NEW h \in HeadType, NEW s \in 0..MaxSlot
  PROVE  LET g == RetainNodes(h, s) IN
         g \in HeadType /\ SameBanks(h, g) /\ SameMaps(h, g) /\ Weaker(h, g)
<1> DEFINE m == Max({h.proofHighest, s})
           N == [t \in Slot |-> IF t >= m - (Retain - 1) THEN h.nodes[t] ELSE NoNode]
           g == [h EXCEPT !.proofHighest = m, !.nodes = N]
<1>1. RetainNodes(h, s) = g
  BY DEF RetainNodes, HeadType
<1>2. m \in 0..MaxSlot
  <2>1. h.proofHighest \in 0..MaxSlot
    BY DEF HeadType
  <2> QED BY <2>1, MaxPair
<1>3. N \in [Slot -> NodeType]
  BY NewNodeTyped DEF HeadType
<1>4. \A t \in Slot : N[t] \in {h.nodes[t], NoNode}
  OBVIOUS
<1> HIDE DEF m, N
<1>5. g \in HeadType /\ g.nodes = N
  BY <1>2, <1>3 DEF HeadType
<1>6. SameBanks(h, g) /\ SameMaps(h, g)
  BY DEF HeadType, SameBanks, SameMaps
<1>7. Weaker(h, g)
  BY <1>4, <1>5, NewNodeTyped DEF Weaker, Valid
<1> QED BY <1>1, <1>5, <1>6, <1>7

-----------------------------------------------------------------------------
(* What the operations on the maps do. *)

\* g is h without the slots of S.
Cleared(h, g, S) ==
  /\ g \in HeadType /\ SameBanks(h, g) /\ Weaker(h, g) /\ g.latest = h.latest
  /\ \A t \in Slot : t \in S =>
       /\ g.slotBlock[t] = NoBank /\ g.slotCommitment[t] = -1 /\ t \notin g.slotFooter
       /\ g.sigsBySlot[t] = {} /\ Valid(g, t) = NoBank
  /\ \A t \in Slot : t \notin S =>
       /\ g.slotBlock[t] = h.slotBlock[t] /\ g.slotCommitment[t] = h.slotCommitment[t]
       /\ (t \in g.slotFooter <=> t \in h.slotFooter)
       /\ g.sigsBySlot[t] = h.sigsBySlot[t]
  /\ \A x \in Sig : g.metaBySig[x] =
       IF /\ h.metaBySig[x] # NoBank /\ slotOf[h.metaBySig[x]] \in S
          /\ x \in h.sigsBySlot[slotOf[h.metaBySig[x]]]
       THEN NoBank ELSE h.metaBySig[x]

\* Removing no slot changes nothing.
LEMMA ClearedNothing ==
  ASSUME NEW h \in HeadType
  PROVE  Cleared(h, h, {})
BY DEF Cleared, SameBanks, Weaker

\* The address index stays finite when keys go.
LEMMA FewerKeys ==
  ASSUME NEW K \in FiniteKeys, NEW L, L \subseteq K
  PROVE  L \in FiniteKeys
BY FS_Subset DEF FiniteKeys

\* remove_slot_inner takes one slot out of all the maps and out of the proof.
LEMMA RemoveSlotInnerEffect ==
  ASSUME NEW h \in HeadType, NEW s \in Slot
  PROVE  Cleared(h, RemoveSlotInner(h, s), {s})
<1> DEFINE h0 == InvalidateNode(h, s)
           h1 == RetainNodes(h0, h.latest)
           M  == [x \in Sig |-> IF /\ x \in h.sigsBySlot[s] /\ h.metaBySig[x] # NoBank
                                   /\ slotOf[h.metaBySig[x]] = s
                                THEN NoBank ELSE h.metaBySig[x]]
           K  == {k \in h1.sigsByAddress : k.slot # s}
           C  == [h.slotCommitment EXCEPT ![s] = -1]
           B  == [h.slotBlock EXCEPT ![s] = NoBank]
           S  == [h.sigsBySlot EXCEPT ![s] = {}]
           g  == [h1 EXCEPT !.slotCommitment = C, !.slotBlock = B, !.slotFooter = h.slotFooter \ {s},
                            !.sigsBySlot = S, !.metaBySig = M, !.sigsByAddress = K]
<1>0. h0 \in HeadType /\ SameBanks(h, h0) /\ SameMaps(h, h0) /\ Weaker(h, h0) /\ Valid(h0, s) = NoBank
  BY InvalidateNodeEffect
<1>1. h.latest \in 0..MaxSlot
  BY DEF HeadType
<1>2. h1 \in HeadType /\ SameBanks(h0, h1) /\ SameMaps(h0, h1) /\ Weaker(h0, h1)
  BY <1>0, <1>1, RetainNodesEffect
<1>3. SameBanks(h, h1) /\ SameMaps(h, h1) /\ Weaker(h, h1) /\ Valid(h1, s) = NoBank
  BY <1>0, <1>2 DEF SameBanks, SameMaps, Weaker
<1>4. RemoveSlotInner(h, s) =
        [h1 EXCEPT !.slotCommitment[s] = -1,
                   !.slotBlock[s] = NoBank, !.slotFooter = @ \ {s},
                   !.sigsBySlot[s] = {},
                   !.metaBySig = [x \in Sig |->
                      IF x \in h.sigsBySlot[s] /\ @[x] # NoBank /\ slotOf[@[x]] = s THEN NoBank ELSE @[x]],
                   !.sigsByAddress = {k \in @ : k.slot # s}]
  BY DEF RemoveSlotInner
<1> HIDE DEF h0, h1
<1>5. RemoveSlotInner(h, s) = g
  <2>1. /\ C = [h1.slotCommitment EXCEPT ![s] = -1] /\ B = [h1.slotBlock EXCEPT ![s] = NoBank]
        /\ S = [h1.sigsBySlot EXCEPT ![s] = {}] /\ h.slotFooter \ {s} = h1.slotFooter \ {s}
        /\ M = [x \in Sig |-> IF /\ x \in h.sigsBySlot[s] /\ h1.metaBySig[x] # NoBank
                                 /\ slotOf[h1.metaBySig[x]] = s
                              THEN NoBank ELSE h1.metaBySig[x]]
    BY <1>3 DEF SameMaps
  <2> HIDE DEF C, B, S, M
  <2> QED BY <1>2, <1>4, <2>1 DEF HeadType
<1>6. M \in [Sig -> Bank \cup {NoBank}]
  BY DEF HeadType
<1>7. K \in FiniteKeys
  <2>1. h1.sigsByAddress \in FiniteKeys
    BY <1>2 DEF HeadType
  <2> QED BY <2>1, FewerKeys
<1>8. \A x \in Sig : M[x] = IF /\ h.metaBySig[x] # NoBank /\ slotOf[h.metaBySig[x]] \in {s}
                               /\ x \in h.sigsBySlot[slotOf[h.metaBySig[x]]]
                            THEN NoBank ELSE h.metaBySig[x]
  OBVIOUS
<1>t. C \in [Slot -> -1..2] /\ B \in [Slot -> Bank \cup {NoBank}] /\ S \in [Slot -> SUBSET Sig]
  BY DEF HeadType
<1>f. h.slotFooter \ {s} \in SUBSET Slot
  BY DEF HeadType
<1> HIDE DEF M, K, C, B, S
<1>9. g \in HeadType
  BY <1>2, <1>6, <1>7, <1>t, <1>f DEF HeadType
<1>10. SameBanks(h1, g) /\ g.latest = h1.latest /\ g.nodes = h1.nodes /\ g.metaBySig = M
  BY <1>2 DEF HeadType, SameBanks
<1>11. SameBanks(h, g) /\ g.latest = h.latest /\ Weaker(h, g) /\ Valid(g, s) = NoBank
  BY <1>3, <1>10 DEF SameBanks, SameMaps, Weaker, Valid
<1>12. /\ g.slotBlock = [h.slotBlock EXCEPT ![s] = NoBank]
       /\ g.slotCommitment = [h.slotCommitment EXCEPT ![s] = -1]
       /\ g.slotFooter = h.slotFooter \ {s}
       /\ g.sigsBySlot = [h.sigsBySlot EXCEPT ![s] = {}]
  BY <1>2 DEF HeadType, C, B, S
<1>13. /\ h.slotBlock \in [Slot -> Bank \cup {NoBank}] /\ h.slotCommitment \in [Slot -> -1..2]
       /\ h.sigsBySlot \in [Slot -> SUBSET Sig]
  BY DEF HeadType
<1> HIDE DEF g
<1> QED BY <1>5, <1>8, <1>9, <1>10, <1>11, <1>12, <1>13 DEF Cleared

\* One more slot.
LEMMA ClearedMore ==
  ASSUME NEW h \in HeadType, NEW f \in HeadType, NEW g, NEW S, NEW T,
         Cleared(h, f, S), Cleared(f, g, T)
  PROVE  Cleared(h, g, S \cup T)
<1>1. g \in HeadType /\ SameBanks(h, g) /\ g.latest = h.latest
  BY DEF Cleared, SameBanks
<1>2. Weaker(h, g)
  BY DEF Cleared, Weaker
<1>3. \A t \in Slot : t \in S \cup T =>
       /\ g.slotBlock[t] = NoBank /\ g.slotCommitment[t] = -1 /\ t \notin g.slotFooter
       /\ g.sigsBySlot[t] = {} /\ Valid(g, t) = NoBank
  BY DEF Cleared, Weaker
<1>4. \A t \in Slot : t \notin S \cup T =>
       /\ g.slotBlock[t] = h.slotBlock[t] /\ g.slotCommitment[t] = h.slotCommitment[t]
       /\ (t \in g.slotFooter <=> t \in h.slotFooter)
       /\ g.sigsBySlot[t] = h.sigsBySlot[t]
  BY DEF Cleared
<1>5. ASSUME NEW x \in Sig
      PROVE  g.metaBySig[x] =
               IF /\ h.metaBySig[x] # NoBank /\ slotOf[h.metaBySig[x]] \in S \cup T
                  /\ x \in h.sigsBySlot[slotOf[h.metaBySig[x]]]
               THEN NoBank ELSE h.metaBySig[x]
  <2>1. h.metaBySig[x] # NoBank => slotOf[h.metaBySig[x]] \in Slot
    BY BankFacts DEF HeadType
  <2> QED BY <2>1 DEF Cleared
<1> QED BY <1>1, <1>2, <1>3, <1>4, <1>5 DEF Cleared

\* The removals of several slots, one after the other, take out just these.
LEMMA RemoveSlotsEffect ==
  ASSUME NEW h \in HeadType, NEW S \in SUBSET Slot
  PROVE  Cleared(h, RemoveSlots(h, S), S)
<1> DEFINE E(f, s) == IF s = 0 THEN h
                      ELSE IF s \in S THEN RemoveSlotInner(f[s - 1], s) ELSE f[s - 1]
           D(f, n) == f = [s \in 0..n |-> E(f, s)]
           P(f, n) == \A s \in 0..n : Cleared(h, f[s], S \cap (1..s))
           G == {n \in Nat : n <= MaxSlot => \E f : D(f, n)}
<1>m. MaxSlot \in Nat
  BY HeadCacheAssumption DEF HeadCacheAssumption
<1> HIDE DEF D, P
<1>1. 0 \in G
  <2>1. D([s \in 0..0 |-> h], 0)
    BY DEF D
  <2> QED BY <2>1
<1>2. ASSUME NEW n \in Nat, n \in G PROVE n + 1 \in G
  <2>1. SUFFICES ASSUME n + 1 <= MaxSlot PROVE \E f : D(f, n + 1)
    OBVIOUS
  <2>2. PICK f : D(f, n)
    BY <1>2, <1>m, <2>1
  <2> DEFINE g == [s \in 0..(n + 1) |-> IF s = n + 1 THEN E(f, n + 1) ELSE f[s]]
  <2>3. \A s \in 0..n : f[s] = E(f, s)
    BY <2>2 DEF D
  <2>4. D(g, n + 1)
    BY <2>2, <2>3 DEF D
  <2> QED BY <2>4
<1>3. \E f : D(f, MaxSlot)
  <2>1. MaxSlot \in G
    <3> HIDE DEF G
    <3> QED BY <1>1, <1>2, <1>m, NatSetInduction
  <2> QED BY <2>1, <1>m
<1> DEFINE f == CHOOSE f : D(f, MaxSlot)
<1>4. D(f, MaxSlot) /\ RemoveSlots(h, S) = f[MaxSlot]
  BY <1>3 DEF RemoveSlots, D
<1> HIDE DEF f
<1>5. \A s \in 0..MaxSlot : f[s] = E(f, s)
  BY <1>4 DEF D
<1> DEFINE H == {n \in Nat : n <= MaxSlot => Cleared(h, f[n], S \cap (1..n))}
<1>6. 0 \in H
  <2>1. S \cap (1..0) = {} /\ f[0] = h
    BY <1>5, <1>m
  <2> QED BY <2>1, ClearedNothing
<1>7. ASSUME NEW n \in Nat, n \in H PROVE n + 1 \in H
  <2>1. SUFFICES ASSUME n + 1 <= MaxSlot PROVE Cleared(h, f[n + 1], S \cap (1..(n + 1)))
    OBVIOUS
  <2>2. Cleared(h, f[n], S \cap (1..n))
    BY <1>7, <1>m, <2>1
  <2>3. f[n] \in HeadType
    BY <2>2 DEF Cleared
  <2>4. f[n + 1] = IF n + 1 \in S THEN RemoveSlotInner(f[n], n + 1) ELSE f[n]
    BY <1>5, <1>m, <2>1
  <2>5. CASE n + 1 \in S
    <3>1. Cleared(f[n], f[n + 1], {n + 1})
      BY <2>3, <2>4, <2>5, RemoveSlotInnerEffect
    <3>2. Cleared(h, f[n + 1], (S \cap (1..n)) \cup {n + 1})
      BY <2>2, <2>3, <3>1, ClearedMore
    <3>3. (S \cap (1..n)) \cup {n + 1} = S \cap (1..(n + 1))
      BY <2>5
    <3> QED BY <3>2, <3>3
  <2>6. CASE n + 1 \notin S
    <3>1. S \cap (1..n) = S \cap (1..(n + 1))
      BY <2>6
    <3> QED BY <2>2, <2>4, <2>6, <3>1
  <2> QED BY <2>5, <2>6
<1>8. Cleared(h, f[MaxSlot], S \cap (1..MaxSlot))
  <2>1. MaxSlot \in H
    <3> HIDE DEF H
    <3> QED BY <1>6, <1>7, <1>m, NatSetInduction
  <2> QED BY <2>1, <1>m
<1>9. S \cap (1..MaxSlot) = S
  BY DEF Slot
<1> QED BY <1>4, <1>8, <1>9

\* A set without the signatures of some slots is as consistent as before.
LEMMA ClearedKeepsMaps ==
  ASSUME NEW h \in HeadType, NEW g, NEW S, NEW e, MapsInv(h, e), Cleared(h, g, S)
  PROVE  MapsInv(g, e)
<1> USE DEF Cleared, MapsInv
<1>0. h.metaBySig \in [Sig -> Bank \cup {NoBank}] /\ h.slotBlock \in [Slot -> Bank \cup {NoBank}]
  BY DEF HeadType
<1>t. \A b \in Bank : slotOf[b] \in Slot
  BY BankFacts
<1>1. SignaturesAgree(g)
  <2>1. ASSUME NEW x \in Sig, g.metaBySig[x] # NoBank
        PROVE  /\ x \in g.sigsBySlot[slotOf[g.metaBySig[x]]]
               /\ x \in Range(txsOf[g.metaBySig[x]])
               /\ g.slotBlock[slotOf[g.metaBySig[x]]] = g.metaBySig[x]
    <3>1. g.metaBySig[x] = h.metaBySig[x] /\ slotOf[h.metaBySig[x]] \in Slot
      BY <1>0, <1>t, <2>1
    <3>2. slotOf[h.metaBySig[x]] \notin S
      BY <2>1, <3>1 DEF SignaturesAgree
    <3> QED BY <2>1, <3>1, <3>2 DEF SignaturesAgree
  <2>2. ASSUME NEW s \in Slot, NEW x \in g.sigsBySlot[s]
        PROVE  g.metaBySig[x] # NoBank /\ slotOf[g.metaBySig[x]] = s
    <3>1. s \notin S /\ x \in h.sigsBySlot[s] /\ x \in Sig
      BY DEF HeadType
    <3> QED BY <3>1 DEF SignaturesAgree
  <2> QED BY <2>1, <2>2 DEF SignaturesAgree
<1>2. BlocksPlaced(g)
  BY DEF BlocksPlaced, SameBanks
<1>3. BlocksProjected(g, e)
  BY DEF BlocksProjected
<1>4. NodesBacked(g)
  BY DEF NodesBacked, Weaker
<1> QED BY <1>1, <1>2, <1>3, <1>4

\* g is h with the latest slot raised to s, and possibly without slots below the window.
Advanced(h, g, s) ==
  /\ g \in HeadType /\ SameBanks(h, g) /\ Weaker(h, g)
  /\ g.latest = IF s > h.latest THEN s ELSE h.latest
  /\ \A t \in Slot : t >= MinRetained(g) =>
       /\ g.slotBlock[t] = h.slotBlock[t] /\ g.slotCommitment[t] = h.slotCommitment[t]
       /\ (t \in g.slotFooter <=> t \in h.slotFooter)
  /\ \A t \in Slot : g.slotBlock[t] \in {h.slotBlock[t], NoBank}
  /\ \A x \in Sig : h.metaBySig[x] # NoBank /\ slotOf[h.metaBySig[x]] >= MinRetained(g)
                      => g.metaBySig[x] = h.metaBySig[x]

\* A new latest slot evicts what falls out of the window, from all the maps alike.
LEMMA AdvanceEffect ==
  ASSUME scenario \in Scenario, NEW h \in HeadType, NEW s \in Slot, NEW e, MapsInv(h, e)
  PROVE  Advanced(h, Advance(h, s), s) /\ MapsInv(Advance(h, s), e)
<1>1. CASE ~(s > h.latest)
  BY <1>1 DEF Advance, Advanced, SameBanks, Weaker
<1>2. CASE s > h.latest
  <2> DEFINE f   == [h EXCEPT !.latest = s]
             m   == MinRetained(f)
             old == {t \in Projected(f) : t < m}
             k   == RemoveSlots(f, old)
             u   == IF k.truncated >= m THEN k.truncated ELSE 0
             g   == IF old = {} THEN f ELSE [k EXCEPT !.truncated = u]
  <2>1. f \in HeadType /\ SameBanks(h, f) /\ f.latest = s
    <3>1. s \in 0..MaxSlot
      BY DEF Slot
    <3> QED BY <3>1 DEF HeadType, SameBanks
  <2>2. /\ f.slotBlock = h.slotBlock /\ f.slotCommitment = h.slotCommitment /\ f.slotFooter = h.slotFooter
        /\ f.metaBySig = h.metaBySig /\ f.sigsBySlot = h.sigsBySlot /\ f.nodes = h.nodes
        /\ f.commitment = h.commitment
    BY DEF HeadType
  <2>3. MapsInv(f, e) /\ Weaker(h, f)
    BY <2>2 DEF MapsInv, SignaturesAgree, BlocksPlaced, BlocksProjected, NodesBacked, Weaker, Valid
  <2>4. Advance(h, s) = g
    BY <1>2, <2>1 DEF Advance, EvictOldSlots, HeadType
  <2>5. old \in SUBSET Slot /\ m \in 0..MaxSlot
    BY <2>1, MinRetainedValue DEF Projected
  <2> HIDE DEF f, m, old
  <2>6. Cleared(f, k, old) /\ k \in HeadType
    BY <2>1, <2>5, RemoveSlotsEffect DEF Cleared
  <2>7. MapsInv(k, e)
    BY <2>1, <2>3, <2>6, ClearedKeepsMaps
  <2>8. u \in Nat
    BY <2>6 DEF HeadType
  <2> HIDE DEF k, u
  <2>9. /\ g \in HeadType /\ g.latest = f.latest /\ SameBanks(f, g) /\ Weaker(f, g) /\ MapsInv(g, e)
        /\ \A t \in Slot : t \notin old =>
             /\ g.slotBlock[t] = f.slotBlock[t] /\ g.slotCommitment[t] = f.slotCommitment[t]
             /\ (t \in g.slotFooter <=> t \in f.slotFooter)
        /\ \A t \in Slot : g.slotBlock[t] \in {f.slotBlock[t], NoBank}
        /\ \A x \in Sig : f.metaBySig[x] # NoBank /\ slotOf[f.metaBySig[x]] \notin old
                            => g.metaBySig[x] = f.metaBySig[x]
    <3>1. CASE old = {}
      BY <2>1, <2>3, <3>1 DEF SameBanks, Weaker
    <3>2. CASE old # {}
      <4> DEFINE q == [k EXCEPT !.truncated = u]
      <4>1. q \in HeadType /\ SameBanks(k, q)
        BY <2>6, <2>8 DEF HeadType, SameBanks
      <4>2. /\ q.latest = k.latest /\ q.slotBlock = k.slotBlock /\ q.slotCommitment = k.slotCommitment
            /\ q.slotFooter = k.slotFooter /\ q.metaBySig = k.metaBySig /\ q.sigsBySlot = k.sigsBySlot
            /\ q.nodes = k.nodes /\ q.commitment = k.commitment
        BY <2>6 DEF HeadType
      <4>3. g = q
        BY <3>2
      <4> HIDE DEF q, g
      <4>4. MapsInv(q, e)
        BY <2>7, <4>2 DEF MapsInv, SignaturesAgree, BlocksPlaced, BlocksProjected, NodesBacked, Valid
      <4>5. SameBanks(f, q) /\ Weaker(f, q)
        BY <2>6, <4>1, <4>2 DEF Cleared, SameBanks, Weaker, Valid
      <4> QED BY <2>6, <4>1, <4>2, <4>3, <4>4, <4>5 DEF Cleared
    <3> QED BY <3>1, <3>2
  <2>10. MinRetained(g) = m
    BY <2>9 DEF MinRetained, m
  <2>11. \A t \in Slot : t >= m => t \notin old
    BY <2>5 DEF old, Slot
  <2> HIDE DEF g
  <2>12. SameBanks(h, g) /\ Weaker(h, g)
    BY <2>1, <2>3, <2>9 DEF SameBanks, Weaker
  <2>13. \A x \in Sig : h.metaBySig[x] # NoBank => slotOf[h.metaBySig[x]] \in Slot
    BY BankFacts DEF HeadType
  <2>14. Advanced(h, g, s)
    BY <1>2, <2>1, <2>2, <2>9, <2>10, <2>11, <2>12, <2>13 DEF Advanced
  <2> QED BY <2>4, <2>9, <2>14
<1> QED BY <1>1, <1>2

\* A bounded set of numbers has its maximum.
LEMMA MaxInSet ==
  ASSUME NEW n \in Nat, NEW S \in SUBSET (0..n), S # {}
  PROVE  Max(S) \in S
<1> DEFINE G == {m \in Nat : \A T \in SUBSET (0..m) : T # {} => \E x \in T : \A y \in T : x >= y}
<1>1. 0 \in G
  <2>1. \A T \in SUBSET (0..0) : \A x, y \in T : x = 0 /\ y = 0 /\ x >= y
    OBVIOUS
  <2> QED BY <2>1
<1>2. ASSUME NEW m \in Nat, m \in G PROVE m + 1 \in G
  <2>1. SUFFICES ASSUME NEW T \in SUBSET (0..(m + 1)), T # {} PROVE \E x \in T : \A y \in T : x >= y
    OBVIOUS
  <2>2. CASE m + 1 \in T
    BY <2>2
  <2>3. CASE m + 1 \notin T
    <3>1. T \in SUBSET (0..m)
      BY <2>3
    <3> QED BY <1>2, <2>1, <3>1
  <2> QED BY <2>2, <2>3
<1>3. n \in G
  <2> HIDE DEF G
  <2> QED BY <1>1, <1>2, NatSetInduction
<1>4. \E x \in S : \A y \in S : x >= y
  BY <1>3
<1> QED BY <1>4 DEF Max

\* The address index is the only thing index_address changes.
LEMMA IndexAddressEffect ==
  ASSUME NEW h \in HeadType, NEW key \in KeyType, NEW min
  PROVE  LET g == IndexAddress(h, key, min) IN
         g \in HeadType /\ SameBanks(h, g) /\ SameMaps(h, g) /\ g.nodes = h.nodes
<1> DEFINE keys == {k \in h.sigsByAddress : k.slot >= min} \cup {key}
           kept == {k \in keys : Cardinality({l \in keys : OlderKey(k, l)}) < PerAddress}
           lost == {k.slot : k \in keys \ kept}
           u    == Max({h.truncated} \cup lost)
           g    == [h EXCEPT !.sigsByAddress = kept, !.truncated = u]
<1>1. IndexAddress(h, key, min) = g
  BY DEF IndexAddress, HeadType
<1>2. h.sigsByAddress \in FiniteKeys /\ h.truncated \in Nat
  BY DEF HeadType
<1>3. keys \in FiniteKeys
  <2>1. {k \in h.sigsByAddress : k.slot >= min} \in FiniteKeys
    BY <1>2, FewerKeys
  <2> QED BY <2>1, FS_AddElement DEF FiniteKeys
<1>4. kept \in FiniteKeys
  <2> HIDE DEF keys
  <2> QED BY <1>3, FewerKeys
<1>5. u \in Nat
  <2>1. MaxSlot \in Nat
    BY HeadCacheAssumption DEF HeadCacheAssumption
  <2>2. keys \subseteq KeyType
    BY <1>3 DEF FiniteKeys
  <2> HIDE DEF keys, kept
  <2>3. lost \subseteq 0..MaxSlot
    BY <2>2 DEF KeyType, Slot
  <2>4. {h.truncated} \cup lost \in SUBSET (0..(h.truncated + MaxSlot))
    BY <1>2, <2>1, <2>3
  <2> DEFINE S == {h.truncated} \cup lost
  <2> HIDE DEF lost
  <2>5. S # {} /\ h.truncated + MaxSlot \in Nat
    <3>1. h.truncated \in S
      OBVIOUS
    <3>2. \A m, n \in Nat : m + n \in Nat
      OBVIOUS
    <3> QED BY <1>2, <2>1, <3>1, <3>2
  <2> HIDE DEF S
  <2>6. Max(S) \in S
    BY <2>4, <2>5, MaxInSet DEF S
  <2> QED BY <2>4, <2>6 DEF S
<1> HIDE DEF kept, u
<1> QED BY <1>1, <1>4, <1>5 DEF HeadType, SameBanks, SameMaps

-----------------------------------------------------------------------------
(* What publishing the transactions of a bank does. *)

\* g is h with some transactions of b projected: b's slot is not evicted, a slot in the
\* window keeps its block, and a signature of a confirmed bank stays with it.
Ingested(h, g, b) ==
  /\ g \in HeadType /\ SameBanks(h, g) /\ Weaker(h, g)
  /\ g.latest \in {h.latest, slotOf[b]} /\ g.latest >= h.latest
  /\ slotOf[b] < MinRetained(h) => g = h
  /\ \A t \in Slot : t >= MinRetained(g) =>
       /\ g.slotBlock[t] = h.slotBlock[t] /\ g.slotCommitment[t] = h.slotCommitment[t]
       /\ (t \in g.slotFooter <=> t \in h.slotFooter)
  /\ \A t \in Slot : g.slotBlock[t] \in {h.slotBlock[t], NoBank}
  /\ \A x \in Sig :
       /\ h.metaBySig[x] # NoBank /\ h.commitment[h.metaBySig[x]] > 0
       /\ slotOf[h.metaBySig[x]] >= MinRetained(g)
       => g.metaBySig[x] = h.metaBySig[x]

\* The window moves with the latest slot, and forward only.
LEMMA MinRetainedGrows ==
  ASSUME scenario \in Scenario, NEW h \in HeadType, NEW g \in HeadType, g.latest >= h.latest
  PROVE  /\ MinRetained(h) \in Nat /\ MinRetained(g) \in Nat /\ MinRetained(h) <= MinRetained(g)
         /\ g.latest = h.latest => MinRetained(g) = MinRetained(h)
<1>1. h.latest \in Nat /\ g.latest \in Nat
  BY DEF HeadType
<1> QED BY <1>1, ScenarioFacts, MinRetainedValue

\* The slot of a bank that is being published stays in the window.
LEMMA IngestedInWindow ==
  ASSUME scenario \in Scenario, NEW h \in HeadType, NEW g, NEW b \in Bank, Ingested(h, g, b),
         slotOf[b] >= MinRetained(h)
  PROVE  slotOf[b] >= MinRetained(g)
<1>1. g \in HeadType /\ slotOf[b] \in Nat /\ h.latest \in Nat
  BY BankFacts DEF Ingested, HeadType
<1> QED BY <1>1, ScenarioFacts, MinRetainedValue DEF Ingested

\* Ingesting nothing changes nothing.
LEMMA IngestedNothing ==
  ASSUME NEW h \in HeadType, NEW b
  PROVE  Ingested(h, h, b)
<1>1. h.latest \in Nat
  BY DEF HeadType
<1> QED BY <1>1 DEF Ingested, SameBanks, Weaker

\* What two ingests of one bank do, one after the other.
LEMMA IngestedMore ==
  ASSUME scenario \in Scenario, NEW h \in HeadType, NEW f \in HeadType, NEW g, NEW b \in Bank,
         Ingested(h, f, b), Ingested(f, g, b)
  PROVE  Ingested(h, g, b)
<1>1. g \in HeadType /\ SameBanks(h, g) /\ Weaker(h, g)
  BY DEF Ingested, SameBanks, Weaker
<1>2. g.latest \in {h.latest, slotOf[b]} /\ g.latest >= h.latest /\ f.latest >= h.latest /\ g.latest >= f.latest
  <2>1. h.latest \in Nat /\ f.latest \in Nat /\ g.latest \in Nat
    BY <1>1 DEF HeadType
  <2> QED BY <2>1 DEF Ingested
<1>3. /\ MinRetained(f) \in Nat /\ MinRetained(g) \in Nat /\ MinRetained(f) <= MinRetained(g)
  BY <1>1, <1>2, MinRetainedGrows
<1>4. slotOf[b] < MinRetained(h) => g = h
  BY DEF Ingested
<1>5. \A t \in Slot : t >= MinRetained(g) => t >= MinRetained(f)
  BY <1>3 DEF Slot
<1>6. \A t \in Slot : t >= MinRetained(g) =>
       /\ g.slotBlock[t] = h.slotBlock[t] /\ g.slotCommitment[t] = h.slotCommitment[t]
       /\ (t \in g.slotFooter <=> t \in h.slotFooter)
  BY <1>5 DEF Ingested
<1>7. \A t \in Slot : g.slotBlock[t] \in {h.slotBlock[t], NoBank}
  BY DEF Ingested
<1>8. \A x \in Sig :
       /\ h.metaBySig[x] # NoBank /\ h.commitment[h.metaBySig[x]] > 0
       /\ slotOf[h.metaBySig[x]] >= MinRetained(g)
       => g.metaBySig[x] = h.metaBySig[x]
  <2>1. \A x \in Sig : h.metaBySig[x] # NoBank => slotOf[h.metaBySig[x]] \in Slot
    BY BankFacts DEF HeadType
  <2>2. f.commitment = h.commitment
    BY DEF Ingested, SameBanks
  <2> QED BY <1>5, <2>1, <2>2 DEF Ingested
<1> QED BY <1>1, <1>2, <1>4, <1>6, <1>7, <1>8 DEF Ingested

\* The signatures of a bank are those at its positions.
LEMMA RangeOfBank ==
  ASSUME NEW b \in Bank
  PROVE  /\ Len(txsOf[b]) \in Nat
         /\ \A i \in 1..Len(txsOf[b]) : txsOf[b][i] \in Sig /\ txsOf[b][i] \in Range(txsOf[b])
         /\ \A x \in Range(txsOf[b]) : \E i \in 1..Len(txsOf[b]) : x = txsOf[b][i]
BY BankFacts DEF Range

\* ingest_bank_transaction keeps the maps in agreement, and gives a confirmed bank its
\* signature, whichever abandoned slot had it.
LEMMA IngestTransactionEffect ==
  ASSUME scenario \in Scenario, NEW h \in HeadType, NEW b \in Bank, NEW i \in 1..Len(txsOf[b]),
         MapsInv(h, slotOf[b]), CommittedIsCanonical(h),
         slotOf[b] >= MinRetained(h) => h.slotBlock[slotOf[b]] = b
  PROVE  LET g == IngestTransaction(h, b, i) IN
         /\ Ingested(h, g, b) /\ MapsInv(g, slotOf[b])
         /\ slotOf[b] >= MinRetained(h) /\ h.commitment[b] > 0 => g.metaBySig[txsOf[b][i]] = b
<1> DEFINE s   == slotOf[b]
           x   == txsOf[b][i]
           old == h.metaBySig[x]
           min == Max({0, Max({h.latest, s}) - (Retain - 1)})
<1>s. s \in Slot /\ s \in 1..MaxSlot /\ x \in Sig /\ x \in Range(txsOf[b]) /\ b # NoBank /\ i \in Nat
  BY BankFacts, RangeOfBank
<1>o. old \in Bank \cup {NoBank} /\ (old # NoBank => slotOf[old] \in Slot)
  BY <1>s, BankFacts DEF HeadType
<1>m. min \in Nat /\ (s < min <=> s < MinRetained(h)) /\ MinRetained(h) \in Nat
  <2>1. h.latest \in Nat /\ s \in Nat
    BY <1>s DEF HeadType
  <2>2. Retain \in Nat \ {0}
    BY ScenarioFacts
  <2>3. Max({h.latest, s}) = IF h.latest >= s THEN h.latest ELSE s
    BY <2>1, MaxPair
  <2> DEFINE w == Max({h.latest, s}) - (Retain - 1)
  <2>4. w \in Int
    BY <2>1, <2>2, <2>3
  <2>5. min = IF 0 >= w THEN 0 ELSE w
    <3>1. min = Max({0, w})
      OBVIOUS
    <3> HIDE DEF w
    <3>2. 0 \in Int
      OBVIOUS
    <3> QED BY <2>4, <3>1, <3>2, MaxPair
  <2> QED BY <2>1, <2>2, <2>3, <2>4, <2>5, MinRetainedValue
<1>1. CASE s < min
  <2>1. IngestTransaction(h, b, i) = h
    BY <1>1 DEF IngestTransaction
  <2> QED BY <1>1, <1>m, <1>s, <2>1, IngestedNothing
<1>2. CASE ~(s < min) /\ old # NoBank /\ KeepsProjection(h, old, b)
  <2>1. IngestTransaction(h, b, i) = h
    BY <1>2 DEF IngestTransaction
  <2>2. h.slotBlock[s] = b
    BY <1>2, <1>m, <1>s
  <2>3. ASSUME h.commitment[b] > 0 PROVE old = b
    <3>1. x \in Range(txsOf[old]) /\ h.slotBlock[slotOf[old]] = old
      BY <1>2, <1>s DEF MapsInv, SignaturesAgree
    <3>2. CASE slotOf[old] = s
      BY <2>2, <3>1, <3>2
    <3>3. CASE h.commitment[old] # 0
      <4>1. h.commitment[old] \in Level /\ h.commitment[b] \in Level
        BY <1>2, <1>o DEF HeadType
      <4>2. old \in Canonical /\ b \in Canonical
        BY <1>2, <1>o, <2>3, <3>3, <4>1 DEF CommittedIsCanonical, Level
      <4> QED BY <1>s, <3>1, <4>2, HeadCacheAssumption DEF HeadCacheAssumption
    <3>4. h.commitment[b] # 0
      BY <2>3
    <3> QED BY <1>2, <3>2, <3>3, <3>4 DEF KeepsProjection
  <2> QED BY <2>1, <2>3, IngestedNothing
<1>3. CASE ~(s < min) /\ ~(old # NoBank /\ KeepsProjection(h, old, b))
  <2> DEFINE S1  == IF old = NoBank THEN h.sigsBySlot
                    ELSE [h.sigsBySlot EXCEPT ![slotOf[old]] = @ \ {x}]
             K1  == IF old = NoBank THEN h.sigsByAddress
                    ELSE {k \in h.sigsByAddress : k.sig # x \/ k.slot # slotOf[old]}
             M2  == [h.metaBySig EXCEPT ![x] = b]
             S2  == [S1 EXCEPT ![s] = @ \cup {x}]
             h1  == IF old = NoBank THEN h
                    ELSE [h EXCEPT !.sigsBySlot[slotOf[old]] = @ \ {x},
                                   !.sigsByAddress = {k \in @ : k.sig # x \/ k.slot # slotOf[old]}]
             h2  == [h1 EXCEPT !.metaBySig[x] = b, !.sigsBySlot[s] = @ \cup {x}]
             g2  == [h EXCEPT !.metaBySig = M2, !.sigsBySlot = S2, !.sigsByAddress = K1]
             key == [sig |-> x, slot |-> s, idx |-> i]
             k   == IndexAddress(h2, key, min)
             g   == Advance(k, s)
  <2>0. IngestTransaction(h, b, i) = g
    BY <1>3 DEF IngestTransaction
  <2>1. S1 \in [Slot -> SUBSET Sig] /\ M2 \in [Sig -> Bank \cup {NoBank}] /\ K1 \in FiniteKeys
    <3>1. h.sigsBySlot \in [Slot -> SUBSET Sig] /\ h.metaBySig \in [Sig -> Bank \cup {NoBank}]
      BY DEF HeadType
    <3>2. h.sigsByAddress \in FiniteKeys
      BY DEF HeadType
    <3>3. K1 \in FiniteKeys
      BY <3>2, FewerKeys
    <3> QED BY <1>s, <1>o, <3>1, <3>3
  <2>2. S2 \in [Slot -> SUBSET Sig]
    <3> HIDE DEF S1
    <3> QED BY <1>s, <2>1
  <2>3. h1 = [h EXCEPT !.sigsBySlot = S1, !.sigsByAddress = K1]
    BY DEF HeadType
  <2>4. h2 = g2
    <3> HIDE DEF h1, S1, K1
    <3>1. h1 \in HeadType /\ h1.sigsBySlot = S1 /\ h1.metaBySig = h.metaBySig
      BY <2>1, <2>3 DEF HeadType
    <3>2. h2 = [h1 EXCEPT !.metaBySig = M2, !.sigsBySlot = S2]
      BY <3>1 DEF HeadType
    <3> HIDE DEF M2, S2, h2
    <3> QED BY <2>3, <3>2 DEF HeadType
  <2>5. old # NoBank => slotOf[old] # s /\ h.commitment[old] = 0
    BY <1>3 DEF KeepsProjection
  <2>6. \A t \in Slot : S2[t] = IF t = s THEN h.sigsBySlot[t] \cup {x}
                                ELSE IF old # NoBank /\ t = slotOf[old] THEN h.sigsBySlot[t] \ {x}
                                ELSE h.sigsBySlot[t]
    <3>1. h.sigsBySlot \in [Slot -> SUBSET Sig]
      BY DEF HeadType
    <3>2. \A t \in Slot : S2[t] = IF t = s THEN S1[t] \cup {x} ELSE S1[t]
      <4> HIDE DEF S1
      <4> QED BY <1>s, <2>1
    <3> HIDE DEF S2
    <3> QED BY <1>o, <2>5, <3>1, <3>2
  <2>7. M2[x] = b /\ \A y \in Sig : y # x => M2[y] = h.metaBySig[y]
    BY <1>s DEF HeadType
  <2> HIDE DEF S1, K1, M2, S2, h1, h2
  <2>8. g2 \in HeadType /\ SameBanks(h, g2)
    BY <2>1, <2>2 DEF HeadType, SameBanks
  <2>9. /\ g2.latest = h.latest /\ g2.slotBlock = h.slotBlock /\ g2.slotCommitment = h.slotCommitment
        /\ g2.slotFooter = h.slotFooter /\ g2.metaBySig = M2 /\ g2.sigsBySlot = S2 /\ g2.nodes = h.nodes
        /\ g2.commitment = h.commitment
    BY DEF HeadType
  <2>10. key \in KeyType
    BY <1>s DEF KeyType
  <2> HIDE DEF key, g2
  <2>11. k \in HeadType /\ SameBanks(g2, k) /\ SameMaps(g2, k) /\ k.nodes = g2.nodes
    BY <2>4, <2>8, <2>10, IndexAddressEffect
  <2> HIDE DEF k
  <2>12. /\ SameBanks(h, k) /\ k.latest = h.latest /\ k.slotBlock = h.slotBlock
         /\ k.slotCommitment = h.slotCommitment
         /\ k.slotFooter = h.slotFooter /\ k.metaBySig = M2 /\ k.sigsBySlot = S2 /\ k.nodes = h.nodes
         /\ k.commitment = h.commitment
    BY <2>8, <2>9, <2>11 DEF SameBanks, SameMaps
  <2>13. h.slotBlock[s] = b /\ s >= MinRetained(h)
    BY <1>3, <1>m, <1>s
  <2>14. SignaturesAgree(k)
    <3>0. h.metaBySig \in [Sig -> Bank \cup {NoBank}]
      BY DEF HeadType
    <3>a. SignaturesAgree(h)
      BY DEF MapsInv
    <3>1. ASSUME NEW y \in Sig, M2[y] # NoBank
          PROVE  /\ y \in S2[slotOf[M2[y]]] /\ y \in Range(txsOf[M2[y]])
                 /\ h.slotBlock[slotOf[M2[y]]] = M2[y]
      <4>1. CASE y = x
        BY <1>s, <2>6, <2>7, <2>13, <4>1
      <4>2. CASE y # x
        <5>1. M2[y] = h.metaBySig[y] /\ slotOf[h.metaBySig[y]] \in Slot
          BY <2>7, <3>0, <3>1, <4>2, BankFacts
        <5> QED BY <2>6, <3>1, <3>a, <4>2, <5>1 DEF SignaturesAgree
      <4> QED BY <4>1, <4>2
    <3>2. ASSUME NEW t \in Slot, NEW y \in S2[t]
          PROVE  M2[y] # NoBank /\ slotOf[M2[y]] = t
      <4>1. CASE t = s /\ y = x
        BY <1>s, <2>7, <4>1
      <4>2. CASE y # x
        <5>1. y \in h.sigsBySlot[t] /\ y \in Sig
          BY <2>2, <2>6, <4>2
        <5> QED BY <2>7, <3>a, <4>2, <5>1 DEF SignaturesAgree
      <4>3. CASE t # s /\ y = x
        <5>1. x \in h.sigsBySlot[t] /\ ~(old # NoBank /\ t = slotOf[old])
          BY <2>6, <4>3
        <5> QED BY <3>a, <5>1 DEF SignaturesAgree
      <4> QED BY <4>1, <4>2, <4>3
    <3> QED BY <2>12, <3>1, <3>2 DEF SignaturesAgree
  <2>15. MapsInv(k, s)
    BY <2>12, <2>14 DEF MapsInv, BlocksPlaced, BlocksProjected, NodesBacked, Valid
  <2>16. Advanced(k, g, s) /\ MapsInv(g, s)
    BY <1>s, <2>11, <2>15, AdvanceEffect
  <2> HIDE DEF g
  <2>17. g \in HeadType /\ SameBanks(h, g) /\ Weaker(h, g)
    BY <2>12, <2>16 DEF Advanced, SameBanks, Weaker, Valid
  <2>18. g.latest \in {h.latest, s} /\ g.latest >= h.latest
    <3>1. h.latest \in Nat /\ s \in Nat
      BY <1>s DEF HeadType
    <3> QED BY <2>12, <2>16, <3>1 DEF Advanced
  <2>19. s >= MinRetained(g)
    <3>1. h.latest \in Nat /\ s \in Nat
      BY <1>s DEF HeadType
    <3> QED BY <2>13, <2>17, <2>18, <3>1, ScenarioFacts, MinRetainedValue
  <2>20. ~(s < MinRetained(h))
    BY <1>3, <1>m
  <2>21. \A y \in Sig : h.metaBySig[y] # NoBank /\ h.commitment[h.metaBySig[y]] > 0 => M2[y] = h.metaBySig[y]
    <3>1. old # NoBank => ~(h.commitment[old] > 0)
      BY <2>5
    <3> QED BY <2>7, <3>1
  <2>22. Ingested(h, g, b)
    BY <2>12, <2>16, <2>17, <2>18, <2>20, <2>21 DEF Ingested, Advanced
  <2>23. g.metaBySig[x] = b
    BY <1>s, <2>7, <2>12, <2>16, <2>19 DEF Advanced
  <2> QED BY <2>0, <2>16, <2>22, <2>23
<1> QED BY <1>1, <1>2, <1>3

\* All transactions of a bank.  A confirmed bank gets all its signatures.
LEMMA IngestBankEffect ==
  ASSUME scenario \in Scenario, NEW h \in HeadType, NEW b \in Bank,
         MapsInv(h, slotOf[b]), CommittedIsCanonical(h),
         slotOf[b] >= MinRetained(h) => h.slotBlock[slotOf[b]] = b
  PROVE  LET g == IngestBank(h, b) IN
         /\ Ingested(h, g, b) /\ MapsInv(g, slotOf[b])
         /\ slotOf[b] >= MinRetained(h) /\ h.commitment[b] > 0
              => \A x \in Range(txsOf[b]) : g.metaBySig[x] = b
<1> DEFINE m == Len(txsOf[b])
           E(f, i) == IF i = 0 THEN h ELSE IngestTransaction(f[i - 1], b, i)
           D(f, n) == f = [i \in 0..n |-> E(f, i)]
           G == {n \in Nat : \E f : D(f, n)}
<1>m. m \in Nat
  BY RangeOfBank
<1> HIDE DEF D, m
<1>1. 0 \in G
  <2>1. D([i \in 0..0 |-> h], 0)
    BY DEF D
  <2> QED BY <2>1
<1>2. ASSUME NEW n \in Nat, n \in G PROVE n + 1 \in G
  <2>1. PICK f : D(f, n)
    BY <1>2
  <2> DEFINE g == [i \in 0..(n + 1) |-> IF i = n + 1 THEN E(f, n + 1) ELSE f[i]]
  <2>2. \A i \in 0..n : f[i] = E(f, i)
    BY <2>1 DEF D
  <2>3. D(g, n + 1)
    BY <2>1, <2>2 DEF D
  <2> QED BY <2>3
<1>3. \E f : D(f, m)
  <2>1. m \in G
    <3> HIDE DEF G
    <3> QED BY <1>1, <1>2, <1>m, NatSetInduction
  <2> QED BY <2>1
<1> DEFINE f == CHOOSE f : D(f, m)
<1>4. D(f, m) /\ IngestBank(h, b) = f[m]
  BY <1>3 DEF IngestBank, D, m
<1> HIDE DEF f
<1>5. \A i \in 0..m : f[i] = E(f, i)
  BY <1>4 DEF D
<1> DEFINE W == slotOf[b] >= MinRetained(h)
           Q(n) == /\ Ingested(h, f[n], b) /\ MapsInv(f[n], slotOf[b])
                   /\ W /\ h.commitment[b] > 0 => \A j \in 1..n : f[n].metaBySig[txsOf[b][j]] = b
           H == {n \in Nat : n <= m => Q(n)}
<1>6. 0 \in H
  <2>1. f[0] = h /\ 1..0 = {}
    BY <1>5, <1>m
  <2> QED BY <2>1, IngestedNothing
<1>7. ASSUME NEW n \in Nat, n \in H PROVE n + 1 \in H
  <2>1. SUFFICES ASSUME n + 1 <= m PROVE Q(n + 1)
    OBVIOUS
  <2> DEFINE u == f[n]
             v == f[n + 1]
  <2>2. Q(n)
    BY <1>7, <1>m, <2>1
  <2>3. v = IngestTransaction(u, b, n + 1) /\ n + 1 \in 1..m
    BY <1>5, <1>m, <2>1
  <2>4. u \in HeadType /\ u.commitment = h.commitment
    BY <2>2 DEF Ingested, SameBanks
  <2>5. CommittedIsCanonical(u)
    BY <2>4 DEF CommittedIsCanonical
  <2>w. slotOf[b] \in Nat /\ MinRetained(h) \in Nat /\ MinRetained(u) \in Nat
    BY <2>4, BankFacts, MinRetainedValue DEF Slot
  <2>6. W <=> slotOf[b] >= MinRetained(u)
    <3>1. W => slotOf[b] >= MinRetained(u)
      BY <2>2, IngestedInWindow
    <3>2. ~W => u = h
      BY <2>2, <2>w DEF Ingested
    <3> QED BY <3>1, <3>2
  <2>7. slotOf[b] >= MinRetained(u) => u.slotBlock[slotOf[b]] = b
    BY <2>2, <2>6, BankFacts DEF Ingested
  <2>8. /\ Ingested(u, v, b) /\ MapsInv(v, slotOf[b])
        /\ W /\ h.commitment[b] > 0 => v.metaBySig[txsOf[b][n + 1]] = b
    BY <2>2, <2>3, <2>4, <2>5, <2>6, <2>7, IngestTransactionEffect DEF m
  <2>9. Ingested(h, v, b)
    BY <2>2, <2>4, <2>8, IngestedMore
  <2>10. ASSUME W, h.commitment[b] > 0, NEW j \in 1..(n + 1) PROVE v.metaBySig[txsOf[b][j]] = b
    <3>1. CASE j = n + 1
      BY <2>8, <2>10, <3>1
    <3>2. CASE j \in 1..n
      <4>1. u.metaBySig[txsOf[b][j]] = b /\ txsOf[b][j] \in Sig
        BY <1>m, <2>1, <2>2, <2>10, <3>2, RangeOfBank DEF m
      <4>2. slotOf[b] >= MinRetained(v) /\ b # NoBank
        BY <2>9, <2>10, IngestedInWindow, BankFacts
      <4> QED BY <2>4, <2>8, <2>10, <4>1, <4>2 DEF Ingested
    <3> QED BY <3>1, <3>2
  <2> QED BY <2>8, <2>9, <2>10
<1>8. Q(m)
  <2>1. m \in H
    <3> HIDE DEF H
    <3> QED BY <1>6, <1>7, <1>m, NatSetInduction
  <2> QED BY <2>1, <1>m
<1> QED BY <1>4, <1>8, RangeOfBank DEF m

\* g is h after the projection of bank b and the commitment of its slot.
Shown(h, g, b) ==
  /\ g \in HeadType /\ SameBanks(h, g) /\ Weaker(h, g) /\ g.latest >= h.latest
  /\ g.slotBlock[slotOf[b]] = h.slotBlock[slotOf[b]]
  /\ \A t \in Slot : t >= MinRetained(g) =>
       /\ g.slotBlock[t] = h.slotBlock[t]
       /\ (t \in g.slotFooter <=> t \in h.slotFooter)
       /\ t # slotOf[b] => g.slotCommitment[t] = h.slotCommitment[t]
       /\ t = slotOf[b] => g.slotCommitment[t] >= h.commitment[b]
  /\ \A t \in Slot : g.slotBlock[t] \in {h.slotBlock[t], NoBank}
  /\ \A x \in Sig :
       /\ h.metaBySig[x] # NoBank /\ h.commitment[h.metaBySig[x]] > 0
       /\ slotOf[h.metaBySig[x]] >= MinRetained(g)
       => g.metaBySig[x] = h.metaBySig[x]
  /\ slotOf[b] >= MinRetained(g) /\ h.commitment[b] > 0
       => \A x \in Range(txsOf[b]) : g.metaBySig[x] = b

\* A bank's rows and its commitment are shown together.
LEMMA ShowEffect ==
  ASSUME scenario \in Scenario, NEW h \in HeadType, NEW b \in Bank,
         MapsInv(h, slotOf[b]), CommittedIsCanonical(h),
         slotOf[b] >= MinRetained(h) => h.slotBlock[slotOf[b]] = b
  PROVE  LET g == NoteSlotCommitment(IngestBank(h, b), slotOf[b], h.commitment[b]) IN
         Shown(h, g, b) /\ MapsInv(g, 0)
<1> DEFINE s  == slotOf[b]
           c  == h.commitment[b]
           f  == IngestBank(h, b)
           o  == f.slotCommitment[s]
           C  == [f.slotCommitment EXCEPT ![s] = IF c >= o THEN c ELSE o]
           f1 == [f EXCEPT !.slotCommitment = C]
           g  == Advance(f1, s)
<1>s. s \in Slot /\ s \in Nat /\ c \in Level /\ b # NoBank
  BY BankFacts DEF HeadType, Slot
<1>1. /\ Ingested(h, f, b) /\ MapsInv(f, s)
      /\ s >= MinRetained(h) /\ c > 0 => \A x \in Range(txsOf[b]) : f.metaBySig[x] = b
  BY IngestBankEffect
<1> HIDE DEF f
<1>2. f \in HeadType /\ f.commitment = h.commitment
  BY <1>1 DEF Ingested, SameBanks
<1>3. NoteSlotCommitment(f, s, c) = g
  BY <1>2, <1>s DEF NoteSlotCommitment, HeadType
<1>4. C \in [Slot -> -1..2] /\ C[s] >= c /\ C[s] # -1 /\ \A t \in Slot : t # s => C[t] = f.slotCommitment[t]
  <2>1. f.slotCommitment \in [Slot -> -1..2]
    BY <1>2 DEF HeadType
  <2> QED BY <1>s, <2>1 DEF Level
<1> HIDE DEF C, s, c
<1>5. f1 \in HeadType /\ SameBanks(f, f1)
  BY <1>2, <1>4 DEF HeadType, SameBanks
<1>6. /\ f1.latest = f.latest /\ f1.slotBlock = f.slotBlock /\ f1.slotCommitment = C
      /\ f1.slotFooter = f.slotFooter /\ f1.metaBySig = f.metaBySig /\ f1.sigsBySlot = f.sigsBySlot
      /\ f1.nodes = f.nodes /\ f1.commitment = f.commitment
  BY <1>2 DEF HeadType
<1> HIDE DEF f1
<1>7. MapsInv(f1, 0)
  <2>1. BlocksProjected(f1, 0)
    BY <1>1, <1>4, <1>6 DEF MapsInv, BlocksProjected
  <2> QED BY <1>1, <1>6, <2>1 DEF MapsInv, SignaturesAgree, BlocksPlaced, NodesBacked, Valid
<1>8. Advanced(f1, g, s) /\ MapsInv(g, 0)
  BY <1>5, <1>7, <1>s, AdvanceEffect
<1> HIDE DEF g
<1>9. g \in HeadType /\ SameBanks(h, g) /\ Weaker(h, g)
  <2>1. SameBanks(h, f) /\ Weaker(h, f) /\ SameBanks(f1, g) /\ Weaker(f1, g) /\ g \in HeadType
    BY <1>1, <1>8 DEF Ingested, Advanced
  <2> QED BY <1>5, <1>6, <2>1 DEF SameBanks, Weaker, Valid
<1>10. h.latest \in Nat /\ f.latest \in Nat /\ g.latest \in Nat
  BY <1>2, <1>9 DEF HeadType
<1>11. g.latest >= f.latest /\ f.latest >= h.latest /\ g.latest >= h.latest
  BY <1>1, <1>6, <1>8, <1>10, <1>s DEF Ingested, Advanced
<1>12. /\ MinRetained(h) \in Nat /\ MinRetained(f) \in Nat /\ MinRetained(g) \in Nat
       /\ MinRetained(h) <= MinRetained(f) /\ MinRetained(f) <= MinRetained(g)
  BY <1>2, <1>9, <1>11, MinRetainedGrows
<1>13. g.slotBlock[s] = h.slotBlock[s]
  <2>1. CASE s < MinRetained(h)
    <3>1. f = h
      BY <1>1, <2>1 DEF Ingested, s
    <3>2. ~(s > h.latest)
      BY <2>1, <1>10, <1>12, <1>s, ScenarioFacts, MinRetainedValue
    <3>3. g = f1
      BY <1>6, <3>1, <3>2 DEF g, Advance
    <3> QED BY <1>6, <3>1, <3>3
  <2>2. CASE s >= MinRetained(h)
    <3>1. s >= MinRetained(f)
      BY <1>1, <2>2, IngestedInWindow DEF s
    <3>2. s >= MinRetained(g)
      BY <1>2, <1>6, <1>8, <1>9, <1>10, <1>12, <1>s, <3>1, ScenarioFacts, MinRetainedValue DEF Advanced
    <3> QED BY <1>1, <1>6, <1>8, <1>s, <3>1, <3>2 DEF Ingested, Advanced
  <2> QED BY <1>12, <1>s, <2>1, <2>2
<1>14. \A t \in Slot : t >= MinRetained(g) => t >= MinRetained(f) /\ t >= MinRetained(h)
  BY <1>12 DEF Slot
<1>15. \A t \in Slot : t >= MinRetained(g) =>
       /\ g.slotBlock[t] = h.slotBlock[t]
       /\ (t \in g.slotFooter <=> t \in h.slotFooter)
       /\ t # s => g.slotCommitment[t] = h.slotCommitment[t]
       /\ t = s => g.slotCommitment[t] >= c
  BY <1>1, <1>4, <1>6, <1>8, <1>14 DEF Ingested, Advanced
<1>16. \A t \in Slot : g.slotBlock[t] \in {h.slotBlock[t], NoBank}
  BY <1>1, <1>6, <1>8 DEF Ingested, Advanced
<1>17. \A x \in Sig :
       /\ h.metaBySig[x] # NoBank /\ h.commitment[h.metaBySig[x]] > 0
       /\ slotOf[h.metaBySig[x]] >= MinRetained(g)
       => g.metaBySig[x] = h.metaBySig[x]
  <2>1. \A x \in Sig : h.metaBySig[x] # NoBank => slotOf[h.metaBySig[x]] \in Slot
    BY BankFacts DEF HeadType
  <2> QED BY <1>1, <1>6, <1>8, <1>14, <2>1 DEF Ingested, Advanced
<1>18. ASSUME s >= MinRetained(g), c > 0, NEW x \in Range(txsOf[b]) PROVE g.metaBySig[x] = b
  <2>1. f.metaBySig[x] = b /\ x \in Sig
    BY <1>1, <1>14, <1>18, <1>s, RangeOfBank
  <2> QED BY <1>6, <1>8, <1>18, <1>s, <2>1 DEF Advanced, s
<1>19. Shown(h, g, b)
  BY <1>9, <1>11, <1>13, <1>15, <1>16, <1>17, <1>18 DEF Shown, s, c
<1> QED BY <1>3, <1>8, <1>19 DEF f, s, c

-----------------------------------------------------------------------------
(* What publishing a bank does. *)

\* The invariant of the banks while bank b is waiting to be published or repaired.
BanksInvBut(h, b) ==
  /\ ShownIsSelected(h) /\ SelectedIsShown(h) /\ FootersShown(h) /\ CommittedIsCanonical(h)
  /\ \A d \in h.sealed \ {b} : h.commitment[d] >= Max({Minimum, 1}) /\ slotOf[d] >= MinRetained(h)
                                 => h.selected[slotOf[d]] = d
  /\ \A s \in Slot :
       h.selected[s] \notin {NoBank, b} /\ h.commitment[h.selected[s]] > 0 /\ s >= MinRetained(h) =>
       /\ h.slotCommitment[s] >= 1
       /\ \A x \in Range(txsOf[h.selected[s]]) : h.metaBySig[x] = h.selected[s]

\* Nothing that concerns the session changes, and the window only moves forward.
SameSession(h, g) ==
  g.connected = h.connected /\ g.highest = h.highest /\ g.discarded = h.discarded /\ g.latest >= h.latest

\* The level at which a sealed bank has to be selected.
LEMMA MinimumOrOne ==
  ASSUME scenario \in Scenario
  PROVE  Max({Minimum, 1}) \in Level /\ Max({Minimum, 1}) >= 1 /\ Max({Minimum, 1}) >= Minimum
<1>1. Minimum \in Level
  BY ScenarioFacts
<1>2. Minimum \in Int /\ 1 \in Int
  BY <1>1 DEF Level
<1>3. Max({Minimum, 1}) = IF Minimum >= 1 THEN Minimum ELSE 1
  BY <1>2, MaxPair
<1> QED BY <1>1, <1>3 DEF Level

\* The floor of the bank state moves forward only.
LEMMA BankFloorGrows ==
  ASSUME scenario \in Scenario, NEW h \in HeadType, NEW g \in HeadType,
         g.latest >= h.latest, g.highest >= h.highest
  PROVE  /\ BankFloor(h) \in Int /\ BankFloor(g) \in Int /\ BankFloor(h) <= BankFloor(g)
         /\ g.latest = h.latest /\ g.highest = h.highest => BankFloor(g) = BankFloor(h)
<1>1. h.latest \in Nat /\ g.latest \in Nat /\ h.highest \in Nat /\ g.highest \in Nat
  BY DEF HeadType
<1>2. Retain \in Nat \ {0} /\ Pending \in Nat /\ Minimum \in Nat
  BY ScenarioFacts DEF Level
<1> DEFINE p == Retain - 1 + (IF Minimum > 0 THEN Pending ELSE 0)
<1>3. p \in Nat
  BY <1>2
<1>4. /\ BankFloor(h) = (IF h.highest >= h.latest THEN h.highest ELSE h.latest) - p
      /\ BankFloor(g) = (IF g.highest >= g.latest THEN g.highest ELSE g.latest) - p
  BY BankFloorValue
<1> HIDE DEF p
<1> QED BY <1>1, <1>3, <1>4

\* Operations on the proof of the chain keep the invariants.
LEMMA ProofStepsKeep ==
  ASSUME NEW h \in HeadType, NEW g \in HeadType, MapsInv(h, 0), BanksInv(h),
         SameBanks(h, g), SameMaps(h, g), Weaker(h, g)
  PROVE  MapsInv(g, 0) /\ BanksInv(g)
<1>1. SignaturesAgree(g) /\ BlocksPlaced(g) /\ BlocksProjected(g, 0)
  BY DEF MapsInv, SameBanks, SameMaps, SignaturesAgree, BlocksPlaced, BlocksProjected
<1>2. NodesBacked(g)
  BY DEF MapsInv, SameMaps, Weaker, NodesBacked
<1>3. MinRetained(g) = MinRetained(h) /\ BankFloor(g) = BankFloor(h)
  BY DEF SameMaps, SameBanks, MinRetained, BankFloor
<1>4. BanksInv(g)
  BY <1>3 DEF BanksInv, SameBanks, SameMaps, ShownIsSelected, SelectedIsShown, FootersShown,
              CommittedIsCanonical, SealedSelected, SelectedIsWhole
<1> QED BY <1>1, <1>2, <1>4 DEF MapsInv

\* The bank that has its slot already is repaired.
LEMMA RepairEffect ==
  ASSUME scenario \in Scenario, NEW h \in HeadType, NEW b \in Bank,
         MapsInv(h, 0), BanksInvBut(h, b), h.selected[slotOf[b]] = b
  PROVE  LET g == NoteSlotCommitment(IngestBank(h, b), slotOf[b], h.commitment[b]) IN
         g \in HeadType /\ MapsInv(g, 0) /\ BanksInv(g) /\ SameSession(h, g)
<1> DEFINE s == slotOf[b]
           g == NoteSlotCommitment(IngestBank(h, b), s, h.commitment[b])
<1>s. s \in Slot /\ b # NoBank
  BY BankFacts
<1>1. MapsInv(h, s)
  BY DEF MapsInv, BlocksProjected, Slot
<1>2. s >= MinRetained(h) => h.slotBlock[s] = b
  BY <1>s DEF BanksInvBut, SelectedIsShown
<1>3. Shown(h, g, b) /\ MapsInv(g, 0)
  BY <1>1, <1>2, ShowEffect DEF BanksInvBut
<1> HIDE DEF g
<1>4. g \in HeadType /\ SameBanks(h, g) /\ g.latest >= h.latest
  BY <1>3 DEF Shown
<1>5. h.highest \in Nat /\ g.highest = h.highest
  BY <1>4 DEF HeadType, SameBanks
<1>6. BankFloor(h) \in Int /\ BankFloor(g) \in Int /\ BankFloor(h) <= BankFloor(g)
  BY <1>4, <1>5, BankFloorGrows
<1>7. MinRetained(h) \in Nat /\ MinRetained(g) \in Nat /\ MinRetained(h) <= MinRetained(g)
  BY <1>4, MinRetainedGrows
<1>8. \A t \in Slot : /\ t >= MinRetained(g) => t >= MinRetained(h)
                      /\ t >= BankFloor(g) => t >= BankFloor(h)
  BY <1>6, <1>7 DEF Slot
<1>d. \A d \in Bank : slotOf[d] \in Slot
  BY BankFacts
<1>9. ShownIsSelected(g)
  BY <1>3, <1>4, <1>8 DEF BanksInvBut, ShownIsSelected, Shown, SameBanks
<1>10. SelectedIsShown(g)
  BY <1>3, <1>4, <1>8 DEF BanksInvBut, SelectedIsShown, Shown, SameBanks
<1>11. FootersShown(g)
  <2>1. g.footers \subseteq Bank
    BY <1>4 DEF HeadType
  <2> QED BY <1>3, <1>4, <1>8, <1>d, <2>1 DEF BanksInvBut, FootersShown, Shown, SameBanks
<1>12. CommittedIsCanonical(g)
  BY <1>4 DEF BanksInvBut, CommittedIsCanonical, SameBanks
<1>13. SealedSelected(g)
  <2>1. g.sealed \subseteq Bank
    BY <1>4 DEF HeadType
  <2> QED BY <1>4, <1>8, <1>d, <2>1 DEF BanksInvBut, SealedSelected, SameBanks
<1>14. SelectedIsWhole(g)
  <2>1. SUFFICES ASSUME NEW t \in Slot, g.selected[t] # NoBank, g.commitment[g.selected[t]] > 0,
                        t >= MinRetained(g)
                 PROVE  /\ g.slotCommitment[t] >= 1
                        /\ \A x \in Range(txsOf[g.selected[t]]) : g.metaBySig[x] = g.selected[t]
    BY DEF SelectedIsWhole
  <2> DEFINE d == h.selected[t]
  <2>2. g.selected[t] = d /\ g.commitment = h.commitment /\ d \in Bank /\ h.commitment[d] > 0
    BY <1>4, <2>1 DEF SameBanks, HeadType
  <2>3. slotOf[d] = t
    BY <2>2, HeadCacheAssumption DEF BanksInvBut, SelectedIsShown, HeadCacheAssumption
  <2>4. CASE d = b
    <3>1. h.commitment[b] >= 1 /\ g.slotCommitment[t] \in Int
      BY <1>4, <2>2, <2>4 DEF HeadType, Level
    <3>2. g.slotCommitment[t] >= h.commitment[b]
      BY <1>3, <2>1, <2>3, <2>4 DEF Shown
    <3>3. h.commitment[b] \in Int
      BY DEF HeadType, Level
    <3> QED BY <1>3, <2>1, <2>2, <2>3, <2>4, <3>1, <3>2, <3>3 DEF Shown
  <2>5. CASE d # b
    <3>1. /\ h.slotCommitment[t] >= 1
          /\ \A x \in Range(txsOf[d]) : h.metaBySig[x] = d
      BY <1>8, <2>1, <2>2, <2>5, HeadCacheAssumption DEF BanksInvBut, HeadCacheAssumption
    <3>2. t # s
      BY <2>5
    <3>3. \A x \in Range(txsOf[d]) : x \in Sig
      BY <2>2, RangeOfBank
    <3>4. d # NoBank
      BY <2>2, HeadCacheAssumption DEF HeadCacheAssumption
    <3> QED BY <1>3, <2>1, <2>2, <2>3, <3>1, <3>2, <3>3, <3>4 DEF Shown
  <2> QED BY <2>4, <2>5
<1>15. SameSession(h, g)
  BY <1>4 DEF SameSession, SameBanks
<1> QED BY <1>3, <1>4, <1>9, <1>10, <1>11, <1>12, <1>13, <1>14, <1>15 DEF BanksInv, g

\* k is h with the block of b in its slot, which was free or is cleared first.
Claimed(h, k, b) ==
  /\ k \in HeadType /\ SameBanks(h, k) /\ k.latest = h.latest
  /\ k.slotBlock[slotOf[b]] = b /\ (b \in h.footers => slotOf[b] \in k.slotFooter)
  /\ \A t \in Slot : t # slotOf[b] =>
       /\ k.slotBlock[t] = h.slotBlock[t] /\ k.slotCommitment[t] = h.slotCommitment[t]
       /\ (t \in k.slotFooter <=> t \in h.slotFooter)
  /\ \A x \in Sig : h.metaBySig[x] # NoBank /\ slotOf[h.metaBySig[x]] # slotOf[b]
                      => k.metaBySig[x] = h.metaBySig[x]

\* publish_bank takes the slot from the bank that had it, rows and all.
LEMMA ClaimSlotEffect ==
  ASSUME scenario \in Scenario, NEW h \in HeadType, NEW b \in Bank, slotOf[b] >= BankFloor(h),
         h.commitment[b] >= Minimum, MapsInv(h, 0), ShownIsSelected(h)
  PROVE  LET f == IF h.selected[slotOf[b]] = NoBank THEN h ELSE RemoveSlotInner(h, slotOf[b])
             k == [f EXCEPT !.slotBlock[slotOf[b]] = b,
                            !.slotFooter = IF b \in h.footers THEN @ \cup {slotOf[b]}
                                                              ELSE @ \ {slotOf[b]}]
         IN  Claimed(h, k, b) /\ MapsInv(k, slotOf[b])
<1> DEFINE s == slotOf[b]
           f == IF h.selected[s] = NoBank THEN h ELSE RemoveSlotInner(h, s)
           B == [f.slotBlock EXCEPT ![s] = b]
           F == IF b \in h.footers THEN f.slotFooter \cup {s} ELSE f.slotFooter \ {s}
           k == [f EXCEPT !.slotBlock[s] = b,
                          !.slotFooter = IF b \in h.footers THEN @ \cup {s} ELSE @ \ {s}]
<1>s. s \in Slot /\ b # NoBank
  BY BankFacts
<1>d. \A d \in Bank : slotOf[d] \in Slot /\ d # NoBank
  BY BankFacts
<1>0. /\ h.selected[s] = NoBank => f = h
      /\ h.selected[s] # NoBank => Cleared(h, f, {s})
  BY <1>s, RemoveSlotInnerEffect
<1> HIDE DEF f
<1>1. /\ f \in HeadType /\ SameBanks(h, f) /\ MapsInv(f, 0) /\ f.latest = h.latest
      /\ f.slotBlock[s] = NoBank
  <2>1. CASE h.selected[s] = NoBank
    BY <1>0, <1>s, <2>1 DEF SameBanks, ShownIsSelected
  <2>2. CASE h.selected[s] # NoBank
    <3>1. Cleared(h, f, {s})
      BY <1>0, <2>2
    <3>2. MapsInv(f, 0)
      BY <3>1, ClearedKeepsMaps
    <3> QED BY <1>s, <3>1, <3>2 DEF Cleared
  <2> QED BY <2>1, <2>2
<1>2. /\ \A t \in Slot : t # s => /\ f.slotBlock[t] = h.slotBlock[t]
                                  /\ f.slotCommitment[t] = h.slotCommitment[t]
                                  /\ (t \in f.slotFooter <=> t \in h.slotFooter)
      /\ \A x \in Sig : h.metaBySig[x] # NoBank /\ slotOf[h.metaBySig[x]] # s
                          => f.metaBySig[x] = h.metaBySig[x]
  BY <1>0 DEF Cleared
<1>b. B \in [Slot -> Bank \cup {NoBank}] /\ F \in SUBSET Slot
  BY <1>s, <1>1 DEF HeadType
<1>c. /\ B[s] = b /\ (b \in h.footers => s \in F)
      /\ \A t \in Slot : t # s => B[t] = f.slotBlock[t] /\ (t \in F <=> t \in f.slotFooter)
  <2>1. f.slotBlock \in [Slot -> Bank \cup {NoBank}]
    BY <1>1 DEF HeadType
  <2> QED BY <1>s, <2>1
<1>e. k = [f EXCEPT !.slotBlock = B, !.slotFooter = F]
  BY <1>1 DEF HeadType
<1> HIDE DEF B, F, k
<1>3. k \in HeadType /\ SameBanks(f, k) /\ k.slotBlock = B /\ k.slotFooter = F
  BY <1>1, <1>b, <1>e DEF HeadType, SameBanks
<1>4. /\ k.latest = f.latest /\ k.slotCommitment = f.slotCommitment
      /\ k.metaBySig = f.metaBySig /\ k.sigsBySlot = f.sigsBySlot /\ k.nodes = f.nodes
  BY <1>1, <1>e DEF HeadType
<1>5. SameBanks(h, k) /\ k.commitment = h.commitment
  BY <1>1, <1>3 DEF SameBanks
<1>6. MapsInv(k, s)
  <2>1. \A x \in Sig : f.metaBySig[x] # NoBank => slotOf[f.metaBySig[x]] # s /\ slotOf[f.metaBySig[x]] \in Slot
    <3>1. SignaturesAgree(f)
      BY <1>1 DEF MapsInv
    <3>2. f.metaBySig \in [Sig -> Bank \cup {NoBank}]
      BY <1>1 DEF HeadType
    <3> QED BY <1>1, <1>d, <3>1, <3>2 DEF SignaturesAgree
  <2>2. SignaturesAgree(k)
    BY <1>1, <1>3, <1>4, <1>c, <2>1 DEF MapsInv, SignaturesAgree
  <2>3. BlocksPlaced(k)
    BY <1>1, <1>3, <1>c, <1>5 DEF MapsInv, BlocksPlaced, SameBanks
  <2>4. BlocksProjected(k, s)
    BY <1>1, <1>3, <1>4, <1>c DEF MapsInv, BlocksProjected, Slot
  <2>5. NodesBacked(k)
    <3>1. NodesBacked(f)
      BY <1>1 DEF MapsInv
    <3>2. \A t \in Slot : Valid(k, t) = Valid(f, t)
      BY <1>4 DEF Valid
    <3> QED BY <1>1, <1>3, <1>c, <3>1, <3>2 DEF NodesBacked
  <2> QED BY <2>2, <2>3, <2>4, <2>5 DEF MapsInv
<1>7. Claimed(h, k, b)
  BY <1>1, <1>2, <1>3, <1>4, <1>5, <1>c DEF Claimed
<1> QED BY <1>6, <1>7 DEF k, f

\* A bank takes a slot that is free, or that it takes over because it is confirmed.
LEMMA TakeSlotEffect ==
  ASSUME scenario \in Scenario, NEW h \in HeadType, NEW b \in Bank,
         b \in h.sealed, b \notin h.discarded, slotOf[b] >= BankFloor(h),
         h.commitment[b] >= Minimum, h.selected[slotOf[b]] # b,
         h.selected[slotOf[b]] = NoBank \/ h.commitment[b] > 0, BanksInvBut(h, b),
         NEW k \in HeadType, Claimed(h, k, b),
         NEW m \in HeadType, Shown(k, m, b), MapsInv(m, 0),
         NEW g \in HeadType, SameMaps(m, g), SameBanks([m EXCEPT !.selected[slotOf[b]] = b], g),
         \A t \in Slot : Valid(g, t) \in {NoBank, Valid(m, t)} \/ (t = slotOf[b] /\ Valid(g, t) = b)
  PROVE  MapsInv(g, 0) /\ BanksInv(g) /\ SameSession(h, g)
<1> DEFINE s == slotOf[b]
<1>s. s \in Slot /\ b # NoBank
  BY BankFacts
<1>d. \A d \in Bank : slotOf[d] \in Slot /\ d # NoBank
  BY BankFacts
<1>5. k.commitment = h.commitment /\ SameBanks(h, k)
  BY DEF SameBanks, Claimed
<1>4. /\ k.slotBlock[s] = b /\ (b \in h.footers => s \in k.slotFooter)
      /\ \A t \in Slot : t # s =>
           /\ k.slotBlock[t] = h.slotBlock[t] /\ k.slotCommitment[t] = h.slotCommitment[t]
           /\ (t \in k.slotFooter <=> t \in h.slotFooter)
  BY DEF Claimed
<1>2. \A x \in Sig : h.metaBySig[x] # NoBank /\ slotOf[h.metaBySig[x]] # s
                       => k.metaBySig[x] = h.metaBySig[x]
  BY DEF Claimed
<1>1. k.latest = h.latest
  BY DEF Claimed
<1>7. Shown(k, m, b) /\ MapsInv(m, 0)
  OBVIOUS
<1>8. /\ g.connected = h.connected /\ g.highest = h.highest /\ g.discarded = h.discarded
      /\ g.footers = h.footers /\ g.sealed = h.sealed /\ g.commitment = h.commitment
      /\ g.selected = [h.selected EXCEPT ![s] = b]
  <2>1. SameBanks(h, m)
    BY <1>5, <1>7 DEF Shown, SameBanks
  <2> QED BY <2>1 DEF SameBanks, HeadType
<1>9. g.selected[s] = b /\ \A t \in Slot : t # s => g.selected[t] = h.selected[t]
  <2>1. h.selected \in [Slot -> Bank \cup {NoBank}]
    BY DEF HeadType
  <2> QED BY <1>8, <1>s, <2>1
<1>10. g.slotBlock[s] = b
  BY <1>4, <1>7 DEF SameMaps, Shown
<1>11. MapsInv(g, 0)
  <2>1. SignaturesAgree(g) /\ BlocksProjected(g, 0)
    <3>1. SignaturesAgree(m) /\ BlocksProjected(m, 0)
      BY <1>7 DEF MapsInv
    <3>2. /\ g.metaBySig = m.metaBySig /\ g.sigsBySlot = m.sigsBySlot /\ g.slotBlock = m.slotBlock
          /\ g.slotCommitment = m.slotCommitment
      BY DEF SameMaps
    <3>3. SignaturesAgree(g)
      BY <3>1, <3>2 DEF SignaturesAgree
    <3>4. BlocksProjected(g, 0)
      BY <3>1, <3>2 DEF BlocksProjected
    <3> QED BY <3>3, <3>4
  <2>2. m.commitment = h.commitment
    BY <1>5, <1>7 DEF Shown, SameBanks
  <2>3. BlocksPlaced(g)
    <3>1. BlocksPlaced(m) /\ g.slotBlock = m.slotBlock
      BY <1>7 DEF MapsInv, SameMaps
    <3> QED BY <1>8, <2>2, <3>1 DEF BlocksPlaced
  <2>4. NodesBacked(g)
    BY <1>7, <1>10 DEF MapsInv, SameMaps, NodesBacked
  <2> QED BY <2>1, <2>3, <2>4 DEF MapsInv
<1>12. g.latest >= h.latest /\ MinRetained(g) = MinRetained(m)
  BY <1>1, <1>7 DEF Shown, SameMaps, MinRetained
<1>13. h.highest \in Nat /\ g.highest = h.highest
  BY <1>8 DEF HeadType
<1>14. BankFloor(h) \in Int /\ BankFloor(g) \in Int /\ BankFloor(h) <= BankFloor(g)
  BY <1>12, <1>13, BankFloorGrows
<1>15. MinRetained(h) \in Nat /\ MinRetained(g) \in Nat /\ MinRetained(h) <= MinRetained(g)
  BY <1>12, MinRetainedGrows
<1>16. \A t \in Slot : /\ t >= MinRetained(g) => t >= MinRetained(h)
                       /\ t >= BankFloor(g) => t >= BankFloor(h)
  BY <1>14, <1>15 DEF Slot
<1>17. \A t \in Slot : t # s => g.slotBlock[t] \in {h.slotBlock[t], NoBank}
  BY <1>2, <1>4, <1>7 DEF Shown, SameMaps
<1>18. \A t \in Slot : t # s /\ t >= MinRetained(g) =>
         /\ g.slotBlock[t] = h.slotBlock[t] /\ g.slotCommitment[t] = h.slotCommitment[t]
         /\ (t \in g.slotFooter <=> t \in h.slotFooter)
  <2>1. SUFFICES ASSUME NEW t \in Slot, t # s, t >= MinRetained(m)
                 PROVE  /\ g.slotBlock[t] = h.slotBlock[t] /\ g.slotCommitment[t] = h.slotCommitment[t]
                        /\ (t \in g.slotFooter <=> t \in h.slotFooter)
    BY <1>12
  <2>2. /\ m.slotBlock[t] = k.slotBlock[t] /\ m.slotCommitment[t] = k.slotCommitment[t]
        /\ (t \in m.slotFooter <=> t \in k.slotFooter)
    BY <1>7, <2>1 DEF Shown
  <2>3. /\ k.slotBlock[t] = h.slotBlock[t] /\ k.slotCommitment[t] = h.slotCommitment[t]
        /\ (t \in k.slotFooter <=> t \in h.slotFooter)
    BY <1>2, <1>4, <2>1
  <2>4. /\ g.slotBlock = m.slotBlock /\ g.slotCommitment = m.slotCommitment
        /\ g.slotFooter = m.slotFooter
    BY DEF SameMaps
  <2> QED BY <2>2, <2>3, <2>4
<1>19. ShownIsSelected(g)
  BY <1>9, <1>10, <1>16, <1>17 DEF BanksInvBut, ShownIsSelected
<1>20. SelectedIsShown(g)
  <2>1. ASSUME NEW t \in Slot, t # s, g.selected[t] # NoBank
        PROVE  /\ slotOf[g.selected[t]] = t /\ g.selected[t] \notin g.discarded
               /\ g.selected[t] \in g.sealed /\ g.commitment[g.selected[t]] >= Minimum
               /\ t >= MinRetained(g) => g.slotBlock[t] = g.selected[t]
    BY <1>8, <1>9, <1>16, <1>18, <2>1 DEF BanksInvBut, SelectedIsShown
  <2> QED BY <1>8, <1>9, <1>10, <1>s, <2>1 DEF SelectedIsShown
<1>21. FootersShown(g)
  <2>1. SUFFICES ASSUME NEW d \in g.footers, g.selected[slotOf[d]] = d, slotOf[d] >= MinRetained(g)
                 PROVE  slotOf[d] \in g.slotFooter
    BY DEF FootersShown
  <2>2. d \in Bank /\ slotOf[d] \in Slot /\ d \in h.footers
    BY <1>8, <1>d DEF HeadType
  <2>3. CASE slotOf[d] = s
    <3>1. s \in k.slotFooter
      BY <1>4, <1>9, <2>1, <2>2, <2>3
    <3> QED BY <1>7, <1>12, <1>s, <2>1, <2>3, <3>1 DEF Shown, SameMaps
  <2>4. CASE slotOf[d] # s
    BY <1>9, <1>16, <1>18, <2>1, <2>2, <2>4 DEF BanksInvBut, FootersShown
  <2> QED BY <2>3, <2>4
<1>22. CommittedIsCanonical(g)
  BY <1>8 DEF BanksInvBut, CommittedIsCanonical
<1>23. SealedSelected(g)
  <2>1. SUFFICES ASSUME NEW d \in g.sealed, g.commitment[d] >= Max({Minimum, 1}), slotOf[d] >= MinRetained(g)
                 PROVE  g.selected[slotOf[d]] = d
    BY DEF SealedSelected
  <2>2. d \in Bank /\ slotOf[d] \in Slot /\ d \in h.sealed /\ h.commitment[d] >= Max({Minimum, 1})
    BY <1>8, <1>d, <2>1 DEF HeadType
  <2>3. d # b => h.selected[slotOf[d]] = d
    BY <1>16, <2>1, <2>2 DEF BanksInvBut
  <2>4. CASE slotOf[d] # s
    BY <1>9, <2>2, <2>3, <2>4
  <2>5. CASE slotOf[d] = s /\ d # b
    <3>1. h.commitment[b] > 0
      BY <1>d, <2>2, <2>3, <2>5
    <3>2. h.commitment[d] \in Level
      BY <2>2 DEF HeadType
    <3>3. h.commitment[d] > 0
      BY <2>2, <3>2, MinimumOrOne DEF Level
    <3>4. b \in Canonical /\ d \in Canonical
      BY <2>2, <3>1, <3>3 DEF BanksInvBut, CommittedIsCanonical
    <3> QED BY <2>5, <3>4, HeadCacheAssumption DEF HeadCacheAssumption
  <2> QED BY <1>9, <2>4, <2>5
<1>24. SelectedIsWhole(g)
  <2>1. SUFFICES ASSUME NEW t \in Slot, g.selected[t] # NoBank, g.commitment[g.selected[t]] > 0,
                        t >= MinRetained(g)
                 PROVE  /\ g.slotCommitment[t] >= 1
                        /\ \A x \in Range(txsOf[g.selected[t]]) : g.metaBySig[x] = g.selected[t]
    BY DEF SelectedIsWhole
  <2>2. CASE t = s
    <3>1. h.commitment[b] > 0 /\ h.commitment[b] \in Level /\ s >= MinRetained(m)
      BY <1>8, <1>9, <1>12, <2>1, <2>2 DEF HeadType
    <3>2. m.slotCommitment[s] >= h.commitment[b] /\ m.slotCommitment[s] \in -1..2
      <4>1. m.slotCommitment \in [Slot -> -1..2]
        BY DEF HeadType
      <4>2. k.commitment[b] = h.commitment[b]
        BY <1>5
      <4> QED BY <1>7, <1>s, <3>1, <4>1, <4>2 DEF Shown
    <3>3. g.slotCommitment[s] >= 1
      BY <3>1, <3>2 DEF SameMaps, Level
    <3>4. \A x \in Range(txsOf[b]) : m.metaBySig[x] = b
      BY <1>5, <1>7, <3>1 DEF Shown
    <3> QED BY <1>9, <2>2, <3>3, <3>4 DEF SameMaps
  <2>3. CASE t # s
    <3> DEFINE d == h.selected[t]
    <3>1. g.selected[t] = d /\ d \in Bank /\ d # NoBank /\ h.commitment[d] > 0 /\ t >= MinRetained(h)
      BY <1>8, <1>9, <1>16, <2>1, <2>3 DEF HeadType
    <3>2. slotOf[d] = t /\ d # b
      BY <2>3, <3>1 DEF BanksInvBut, SelectedIsShown
    <3>3. h.slotCommitment[t] >= 1 /\ \A x \in Range(txsOf[d]) : h.metaBySig[x] = d
      BY <3>1, <3>2 DEF BanksInvBut
    <3>4. \A x \in Range(txsOf[d]) : x \in Sig /\ k.metaBySig[x] = d
      <4>1. \A x \in Range(txsOf[d]) : x \in Sig
        BY <3>1, RangeOfBank
      <4> HIDE DEF d
      <4> QED BY <1>2, <2>3, <3>1, <3>2, <3>3, <4>1
    <3>5. \A x \in Range(txsOf[d]) : m.metaBySig[x] = d
      BY <1>5, <1>7, <1>12, <2>1, <3>1, <3>2, <3>4 DEF Shown
    <3> QED BY <1>18, <2>1, <2>3, <3>1, <3>3, <3>5 DEF SameMaps
  <2> QED BY <2>2, <2>3
<1>25. SameSession(h, g)
  BY <1>8, <1>12 DEF SameSession
<1> QED BY <1>11, <1>19, <1>20, <1>21, <1>22, <1>23, <1>24, <1>25 DEF BanksInv

\* publish_bank: whether it declines, repairs or replaces, all parts of the invariant hold
\* again, also for the bank that waited for it.
LEMMA PublishBankEffect ==
  ASSUME scenario \in Scenario, NEW h \in HeadType, NEW b \in Bank,
         b \notin h.discarded, slotOf[b] >= BankFloor(h), MapsInv(h, 0), BanksInvBut(h, b)
  PROVE  LET g == PublishBank(h, b) IN
         g \in HeadType /\ MapsInv(g, 0) /\ BanksInv(g) /\ SameSession(h, g)
<1> DEFINE s  == slotOf[b]
           c  == h.commitment[b]
           h1 == IF h.selected[s] = NoBank THEN h ELSE RemoveSlotInner(h, s)
           h2 == [h1 EXCEPT !.slotBlock[s] = b,
                            !.slotFooter = IF b \in h.footers THEN @ \cup {s} ELSE @ \ {s}]
           h3 == NoteSlotCommitment(IngestBank(h2, b), s, c)
           hs == [h3 EXCEPT !.selected[s] = b]
           h4 == SelectBank(hs, b)
           h5 == PublishNode(h4, s, c)
           h6 == IF b \in h.observed THEN Observe(h5, s, c) ELSE h5
<1>s. s \in Slot /\ b # NoBank /\ c \in Level /\ h.latest \in Nat /\ Minimum \in Level
  BY BankFacts, ScenarioFacts DEF HeadType
<1>0. PublishBank(h, b) =
        CASE b \notin h.sealed \/ c < Minimum             -> h
          [] h.selected[s] \notin {NoBank, b} /\ c = 0   -> h
          [] h.selected[s] = b                           -> NoteSlotCommitment(IngestBank(h, b), s, c)
          [] OTHER                                       -> h6
  BY DEF PublishBank
<1> HIDE DEF h6
<1>1. CASE b \notin h.sealed \/ c < Minimum \/ (h.selected[s] \notin {NoBank, b} /\ c = 0)
  <2>1. PublishBank(h, b) = h
    <3> DEFINE R == NoteSlotCommitment(IngestBank(h, b), s, c)
    <3>1. PublishBank(h, b) =
            CASE b \notin h.sealed \/ c < Minimum             -> h
              [] h.selected[s] \notin {NoBank, b} /\ c = 0   -> h
              [] h.selected[s] = b                           -> R
              [] OTHER                                       -> h6
      BY <1>0
    <3> HIDE DEF R
    <3>2. CASE b \notin h.sealed
      <4>1. h.selected[s] # b
        BY <1>s, <3>2 DEF BanksInvBut, SelectedIsShown
      <4> QED BY <3>1, <3>2, <4>1
    <3>3. CASE c < Minimum
      <4>1. h.selected[s] # b
        BY <1>s, <3>3 DEF BanksInvBut, SelectedIsShown, Level
      <4> QED BY <3>1, <3>3, <4>1
    <3>4. CASE h.selected[s] \notin {NoBank, b} /\ c = 0
      BY <3>1, <3>4
    <3> QED BY <1>1, <3>2, <3>3, <3>4
  <2>2. SealedSelected(h)
    BY <1>1, <1>s, MinimumOrOne DEF BanksInvBut, SealedSelected, Level
  <2>3. \A t \in Slot : h.selected[t] # b
    <3>1. SUFFICES ASSUME NEW t \in Slot, h.selected[t] = b PROVE FALSE
      OBVIOUS
    <3>2. t = s /\ b \in h.sealed /\ c >= Minimum
      BY <1>s, <3>1 DEF BanksInvBut, SelectedIsShown
    <3> QED BY <1>1, <1>s, <3>1, <3>2 DEF Level
  <2>4. SelectedIsWhole(h)
    BY <2>3 DEF BanksInvBut, SelectedIsWhole
  <2> QED BY <1>s, <2>1, <2>2, <2>4 DEF BanksInvBut, BanksInv, SameSession
<1>2. CASE b \in h.sealed /\ c >= Minimum /\ h.selected[s] = b
  <2>1. PublishBank(h, b) = NoteSlotCommitment(IngestBank(h, b), s, c)
    BY <1>0, <1>2, <1>s DEF Level
  <2> QED BY <1>2, <2>1, RepairEffect
<1>3. CASE b \in h.sealed /\ c >= Minimum /\ h.selected[s] # b /\ (h.selected[s] = NoBank \/ c > 0)
  <2>0. PublishBank(h, b) = h6
    BY <1>0, <1>3, <1>s DEF Level
  <2>1. Claimed(h, h2, b) /\ MapsInv(h2, s)
    BY <1>3, ClaimSlotEffect DEF BanksInvBut
  <2> HIDE DEF h2
  <2>2. h2 \in HeadType /\ h2.commitment = h.commitment
    BY <2>1 DEF Claimed, SameBanks
  <2>3. CommittedIsCanonical(h2) /\ h2.slotBlock[s] = b
    BY <2>1, <2>2 DEF BanksInvBut, CommittedIsCanonical, Claimed
  <2>4. Shown(h2, h3, b) /\ MapsInv(h3, 0)
    BY <2>1, <2>2, <2>3, ShowEffect
  <2>6. h3 \in HeadType
    BY <2>4 DEF Shown
  <2> HIDE DEF h3
  <2>7. hs \in HeadType /\ SameMaps(h3, hs) /\ hs.nodes = h3.nodes
    BY <1>s, <2>6 DEF HeadType, SameMaps
  <2> HIDE DEF hs
  <2>8. /\ h4 \in HeadType /\ SameBanks(hs, h4) /\ SameMaps(hs, h4)
        /\ \A t \in Slot : Valid(h4, t) \in {NoBank, Valid(hs, t)} \/ (t = slotOf[b] /\ Valid(h4, t) = b)
    BY <2>7, SelectBankEffect
  <2> HIDE DEF h4
  <2>9. h5 \in HeadType /\ SameBanks(h4, h5) /\ SameMaps(h4, h5) /\ Weaker(h4, h5)
    BY <1>s, <2>8, PublishNodeEffect
  <2> HIDE DEF h5
  <2>10. h6 \in HeadType /\ SameBanks(h5, h6) /\ SameMaps(h5, h6) /\ Weaker(h5, h6)
    BY <1>s, <2>9, ObserveEffect DEF h6, SameBanks, SameMaps, Weaker
  <2>11. SameMaps(h3, h6) /\ SameBanks(hs, h6)
    BY <2>7, <2>8, <2>9, <2>10 DEF SameMaps, SameBanks
  <2>12. \A t \in Slot : Valid(h6, t) \in {NoBank, Valid(h3, t)} \/ (t = s /\ Valid(h6, t) = b)
    <3>1. \A t \in Slot : Valid(hs, t) = Valid(h3, t)
      BY <2>7 DEF Valid
    <3> QED BY <2>8, <2>9, <2>10, <3>1 DEF Weaker
  <2>13. MapsInv(h6, 0) /\ BanksInv(h6) /\ SameSession(h, h6)
    <3>1. SameBanks([h3 EXCEPT !.selected[slotOf[b]] = b], h6)
      BY <2>11 DEF hs
    <3> QED BY <1>3, <2>1, <2>2, <2>4, <2>6, <2>10, <2>11, <2>12, <3>1, TakeSlotEffect
  <2> QED BY <2>0, <2>10, <2>13
<1> QED BY <1>1, <1>2, <1>3, <1>s DEF Level

-----------------------------------------------------------------------------
(* The other operations on banks. *)

\* Banks below the floor are forgotten.
LEMMA RetainBanksEffect ==
  ASSUME scenario \in Scenario, NEW h \in HeadType, MapsInv(h, 0), BanksInv(h)
  PROVE  LET g == RetainBanks(h) IN
         /\ g \in HeadType /\ MapsInv(g, 0) /\ BanksInv(g) /\ BankFloor(g) = BankFloor(h)
         /\ g.connected = h.connected
         /\ \A d \in h.discarded : slotOf[d] >= BankFloor(h) => d \in g.discarded
<1> DEFINE old == {b \in Bank : slotOf[b] < BankFloor(h)}
           h1  == Forget(h, old)
           S   == [s \in Slot |-> IF s >= BankFloor(h) THEN h.selected[s] ELSE NoBank]
           C   == [s \in Slot |-> IF s >= BankFloor(h) THEN h.canonical[s] ELSE NoBank]
           g   == [h1 EXCEPT !.discarded = h.discarded \ old, !.selected = S, !.canonical = C]
<1>1. h1 \in HeadType
  BY DEF Forget, HeadType
<1>2. /\ h1.banks = h.banks \ old /\ h1.sealed = h.sealed \ old /\ h1.footers = h.footers \ old
      /\ h1.discarded = h.discarded /\ h1.selected = h.selected /\ h1.canonical = h.canonical
      /\ h1.connected = h.connected /\ h1.highest = h.highest /\ h1.commitment = h.commitment
      /\ h1.nodes = h.nodes /\ SameMaps(h, h1)
  BY DEF Forget, HeadType, SameMaps
<1>3. RetainBanks(h) = [h1 EXCEPT !.discarded = @ \ old,
                 !.selected = [s \in Slot |-> IF s >= BankFloor(h) THEN @[s] ELSE NoBank],
                 !.canonical = [s \in Slot |-> IF s >= BankFloor(h) THEN @[s] ELSE NoBank]]
  BY DEF RetainBanks
<1> HIDE DEF h1
<1>4. RetainBanks(h) = g
  BY <1>1, <1>2, <1>3 DEF HeadType
<1>5. S \in [Slot -> Bank \cup {NoBank}] /\ C \in [Slot -> Bank \cup {NoBank}]
  BY DEF HeadType
<1>6. \A s \in Slot : S[s] = IF s >= BankFloor(h) THEN h.selected[s] ELSE NoBank
  OBVIOUS
<1>7. h.discarded \ old \in SUBSET Bank
  BY DEF HeadType
<1> HIDE DEF S, C
<1>8. g \in HeadType
  BY <1>1, <1>5, <1>7 DEF HeadType
<1>9. /\ g.sealed = h.sealed \ old /\ g.footers = h.footers \ old
      /\ g.discarded = h.discarded \ old /\ g.selected = S
      /\ g.connected = h.connected /\ g.highest = h.highest /\ g.commitment = h.commitment
      /\ g.nodes = h.nodes /\ SameMaps(h1, g)
  BY <1>1, <1>2 DEF HeadType, SameMaps
<1> HIDE DEF g
<1>10. SameMaps(h, g)
  BY <1>2, <1>9 DEF SameMaps
<1>11. MinRetained(g) = MinRetained(h) /\ BankFloor(g) = BankFloor(h)
  BY <1>9, <1>10 DEF SameMaps, MinRetained, BankFloor
<1>12. MapsInv(g, 0)
  <2>1. SignaturesAgree(g)
    BY <1>10 DEF MapsInv, SameMaps, SignaturesAgree
  <2>2. BlocksPlaced(g) /\ BlocksProjected(g, 0)
    BY <1>9, <1>10 DEF MapsInv, SameMaps, BlocksPlaced, BlocksProjected
  <2>3. NodesBacked(g)
    BY <1>9, <1>10 DEF MapsInv, SameMaps, NodesBacked, Valid
  <2> QED BY <2>1, <2>2, <2>3 DEF MapsInv
<1>d. \A d \in Bank : slotOf[d] \in Slot /\ slotOf[d] \in Int /\ d # NoBank
  BY BankFacts DEF Slot
<1>f. BankFloor(h) \in Int
  BY BankFloorValue
<1>13. ShownIsSelected(g)
  BY <1>6, <1>9, <1>10, <1>11 DEF BanksInv, ShownIsSelected, SameMaps
<1>14. SelectedIsShown(g)
  <2>1. SUFFICES ASSUME NEW s \in Slot, g.selected[s] # NoBank
                 PROVE  /\ slotOf[g.selected[s]] = s /\ g.selected[s] \notin g.discarded
                        /\ g.selected[s] \in g.sealed /\ g.commitment[g.selected[s]] >= Minimum
                        /\ s >= MinRetained(g) => g.slotBlock[s] = g.selected[s]
    BY DEF SelectedIsShown
  <2>2. s >= BankFloor(h) /\ g.selected[s] = h.selected[s] /\ h.selected[s] # NoBank
    BY <1>6, <1>9, <2>1
  <2>3. slotOf[h.selected[s]] = s
    BY <2>2 DEF BanksInv, SelectedIsShown
  <2>4. h.selected[s] \notin old
    BY <1>f, <2>2, <2>3 DEF Slot
  <2> QED BY <1>9, <1>10, <1>11, <2>2, <2>4 DEF BanksInv, SelectedIsShown, SameMaps
<1>15. FootersShown(g)
  <2>1. ASSUME NEW d \in g.footers, g.selected[slotOf[d]] = d
        PROVE  d \in h.footers /\ h.selected[slotOf[d]] = d
    <3>1. d \in h.footers /\ d \in Bank
      BY <1>9 DEF HeadType
    <3> QED BY <1>6, <1>9, <1>d, <2>1, <3>1
  <2> QED BY <1>10, <1>11, <2>1 DEF BanksInv, FootersShown, SameMaps
<1>16. CommittedIsCanonical(g)
  BY <1>9 DEF BanksInv, CommittedIsCanonical
<1>17. SealedSelected(g)
  <2>1. SUFFICES ASSUME NEW d \in g.sealed, g.commitment[d] >= Max({Minimum, 1}), slotOf[d] >= MinRetained(g)
                 PROVE  g.selected[slotOf[d]] = d
    BY DEF SealedSelected
  <2>2. d \in h.sealed /\ d \in Bank /\ d \notin old
    BY <1>9 DEF HeadType
  <2>3. h.selected[slotOf[d]] = d
    BY <1>9, <1>11, <2>1, <2>2 DEF BanksInv, SealedSelected
  <2>4. slotOf[d] >= BankFloor(h)
    BY <1>d, <1>f, <2>2
  <2> QED BY <1>6, <1>9, <1>d, <2>2, <2>3, <2>4
<1>18. SelectedIsWhole(g)
  <2>1. \A s \in Slot : g.selected[s] # NoBank => g.selected[s] = h.selected[s]
    BY <1>6, <1>9
  <2> QED BY <1>9, <1>10, <1>11, <2>1 DEF BanksInv, SelectedIsWhole, SameMaps
<1>19. \A d \in h.discarded : slotOf[d] >= BankFloor(h) => d \in g.discarded
  <2>1. h.discarded \subseteq Bank
    BY DEF HeadType
  <2> QED BY <1>9, <1>d, <1>f, <2>1
<1> QED BY <1>4, <1>8, <1>9, <1>11, <1>12, <1>13, <1>14, <1>15, <1>16, <1>17, <1>18, <1>19 DEF BanksInv

\* Staging changes neither the maps nor what is selected.
LEMMA StageKeeps ==
  ASSUME scenario \in Scenario, NEW h \in HeadType, NEW g \in HeadType, MapsInv(h, 0), BanksInv(h),
         g.latest = h.latest, g.highest >= h.highest,
         g.slotBlock = h.slotBlock, g.slotCommitment = h.slotCommitment,
         g.metaBySig = h.metaBySig, g.sigsBySlot = h.sigsBySlot, g.nodes = h.nodes,
         g.commitment = h.commitment, g.selected = h.selected, g.discarded = h.discarded,
         h.sealed \subseteq g.sealed, NEW b, g.sealed \subseteq h.sealed \cup {b}, FootersShown(g)
  PROVE  /\ MapsInv(g, 0) /\ BanksInvBut(g, b)
         /\ g.sealed = h.sealed => BanksInv(g)
<1>1. MapsInv(g, 0)
  <2>1. SignaturesAgree(g)
    BY DEF MapsInv, SignaturesAgree
  <2>2. BlocksPlaced(g) /\ BlocksProjected(g, 0)
    BY DEF MapsInv, BlocksPlaced, BlocksProjected
  <2>3. NodesBacked(g)
    BY DEF MapsInv, NodesBacked, Valid
  <2> QED BY <2>1, <2>2, <2>3 DEF MapsInv
<1>2. MinRetained(g) = MinRetained(h)
  BY DEF MinRetained
<1>3. h.latest \in Nat
  BY DEF HeadType
<1>4. BankFloor(h) \in Int /\ BankFloor(g) \in Int /\ BankFloor(h) <= BankFloor(g)
  BY <1>3, BankFloorGrows
<1>5. \A s \in Slot : s >= BankFloor(g) => s >= BankFloor(h)
  BY <1>4 DEF Slot
<1>6. ShownIsSelected(g)
  BY <1>5 DEF BanksInv, ShownIsSelected
<1>7. SelectedIsShown(g)
  BY <1>2 DEF BanksInv, SelectedIsShown
<1>8. CommittedIsCanonical(g)
  BY DEF BanksInv, CommittedIsCanonical
<1>9. SelectedIsWhole(g)
  BY <1>2 DEF BanksInv, SelectedIsWhole
<1>10. \A d \in h.sealed : h.commitment[d] >= Max({Minimum, 1}) /\ slotOf[d] >= MinRetained(g)
                                 => h.selected[slotOf[d]] = d
  BY <1>2 DEF BanksInv, SealedSelected
<1>11. BanksInvBut(g, b)
  BY <1>6, <1>7, <1>8, <1>9, <1>10 DEF BanksInvBut, SelectedIsWhole
<1>12. g.sealed = h.sealed => SealedSelected(g)
  BY <1>10 DEF SealedSelected
<1> QED BY <1>1, <1>6, <1>7, <1>8, <1>9, <1>11, <1>12 DEF BanksInv

\* A slot loses its block and its bank together.
LEMMA LossKeeps ==
  ASSUME scenario \in Scenario, NEW h \in HeadType, NEW g \in HeadType, BanksInv(h),
         NEW b \in Bank, NEW s \in Slot, s = slotOf[b],
         g.latest = h.latest, g.highest >= h.highest,
         \A t \in Slot : t # s \/ g.selected[s] = h.selected[s] =>
           /\ g.selected[t] = h.selected[t] /\ g.slotBlock[t] = h.slotBlock[t]
           /\ g.slotCommitment[t] = h.slotCommitment[t]
           /\ (t \in g.slotFooter <=> t \in h.slotFooter),
         g.selected[s] # h.selected[s] => g.selected[s] = NoBank /\ g.slotBlock[s] = NoBank,
         \A x \in Sig :
           h.metaBySig[x] # NoBank /\ (slotOf[h.metaBySig[x]] # s \/ g.selected[s] = h.selected[s])
             => g.metaBySig[x] = h.metaBySig[x],
         g.footers \subseteq h.footers,
         \A t \in Slot : g.selected[t] # NoBank => g.selected[t] \in g.sealed /\ g.selected[t] \notin g.discarded,
         \A d \in Bank : d # b => g.commitment[d] = h.commitment[d],
         g.commitment[b] >= h.commitment[b], CommittedIsCanonical(g),
         \A d \in g.sealed \ {b} : g.commitment[d] >= Max({Minimum, 1}) /\ slotOf[d] >= MinRetained(h)
                                     => g.selected[slotOf[d]] = d
  PROVE  BanksInvBut(g, b)
<1>1. MinRetained(g) = MinRetained(h)
  BY DEF MinRetained
<1>2. h.latest \in Nat
  BY DEF HeadType
<1>3. BankFloor(h) \in Int /\ BankFloor(g) \in Int /\ BankFloor(h) <= BankFloor(g)
  BY <1>2, BankFloorGrows
<1>4. \A t \in Slot : t >= BankFloor(g) => t >= BankFloor(h)
  BY <1>3 DEF Slot
<1>5. ShownIsSelected(g)
  BY <1>4 DEF BanksInv, ShownIsSelected
<1>6. \A t \in Slot : g.selected[t] # NoBank => g.selected[t] = h.selected[t] /\ (t # s \/ g.selected[s] = h.selected[s])
  OBVIOUS
<1>c. \A d \in Bank : g.commitment[d] \in Level /\ h.commitment[d] \in Level /\ g.commitment[d] >= h.commitment[d]
  BY DEF HeadType, Level
<1>7. SelectedIsShown(g)
  <2>1. SUFFICES ASSUME NEW t \in Slot, g.selected[t] # NoBank
                 PROVE  /\ slotOf[g.selected[t]] = t
                        /\ g.commitment[g.selected[t]] >= Minimum
                        /\ t >= MinRetained(g) => g.slotBlock[t] = g.selected[t]
    BY DEF SelectedIsShown
  <2>2. g.selected[t] = h.selected[t] /\ h.selected[t] \in Bank /\ g.slotBlock[t] = h.slotBlock[t]
    BY <1>6, <2>1 DEF HeadType
  <2>3. /\ slotOf[h.selected[t]] = t /\ h.commitment[h.selected[t]] >= Minimum
        /\ t >= MinRetained(h) => h.slotBlock[t] = h.selected[t]
    BY <2>1, <2>2 DEF BanksInv, SelectedIsShown
  <2>4. Minimum \in Level
    BY ScenarioFacts
  <2>5. g.commitment[h.selected[t]] >= Minimum
    BY <1>c, <2>2, <2>3, <2>4 DEF Level
  <2> QED BY <1>1, <2>2, <2>3, <2>5
<1>8. FootersShown(g)
  <2>1. SUFFICES ASSUME NEW d \in g.footers, g.selected[slotOf[d]] = d, slotOf[d] >= MinRetained(g)
                 PROVE  slotOf[d] \in g.slotFooter
    BY DEF FootersShown
  <2>2. d \in h.footers /\ d \in Bank /\ d # NoBank /\ slotOf[d] \in Slot
    BY BankFacts DEF HeadType
  <2>3. h.selected[slotOf[d]] = d /\ (slotOf[d] # s \/ g.selected[s] = h.selected[s])
    BY <1>6, <2>1, <2>2
  <2>4. slotOf[d] \in h.slotFooter
    BY <1>1, <2>1, <2>2, <2>3 DEF BanksInv, FootersShown
  <2> QED BY <2>2, <2>3, <2>4
<1>9. ASSUME NEW t \in Slot, g.selected[t] \notin {NoBank, b}, g.commitment[g.selected[t]] > 0, t >= MinRetained(g)
      PROVE  /\ g.slotCommitment[t] >= 1
             /\ \A x \in Range(txsOf[g.selected[t]]) : g.metaBySig[x] = g.selected[t]
  <2> DEFINE d == h.selected[t]
  <2>1. g.selected[t] = d /\ d \in Bank /\ d # NoBank /\ d # b /\ (t # s \/ g.selected[s] = h.selected[s])
    BY <1>6, <1>9 DEF HeadType
  <2>2. h.commitment[d] > 0
    BY <1>9, <2>1
  <2>3. slotOf[d] = t
    BY <2>1 DEF BanksInv, SelectedIsShown
  <2>4. h.slotCommitment[t] >= 1 /\ \A x \in Range(txsOf[d]) : h.metaBySig[x] = d
    BY <1>1, <1>9, <2>1, <2>2 DEF BanksInv, SelectedIsWhole
  <2> HIDE DEF d
  <2>5. \A x \in Range(txsOf[d]) : x \in Sig
    BY <2>1, RangeOfBank
  <2>6. \A x \in Range(txsOf[d]) : g.metaBySig[x] = d
    BY <2>1, <2>3, <2>4, <2>5
  <2>7. g.slotCommitment[t] = h.slotCommitment[t]
    BY <2>1
  <2> QED BY <2>1, <2>4, <2>6, <2>7
<1> QED BY <1>1, <1>5, <1>7, <1>8, <1>9 DEF BanksInvBut

\* Forgetting banks leaves all but their parts.
LEMMA ForgetEffect ==
  ASSUME NEW h \in HeadType, NEW gone \in SUBSET Bank
  PROVE  LET g == Forget(h, gone) IN
         /\ g \in HeadType /\ SameMaps(h, g) /\ g.nodes = h.nodes
         /\ g.connected = h.connected /\ g.highest = h.highest /\ g.commitment = h.commitment
         /\ g.selected = h.selected /\ g.canonical = h.canonical /\ g.discarded = h.discarded
         /\ g.sealed = h.sealed \ gone /\ g.footers = h.footers \ gone
BY DEF Forget, HeadType, SameMaps

\* The maps do not depend on the banks but for their commitment.
LEMMA SameMapsKeep ==
  ASSUME scenario \in Scenario, NEW h \in HeadType, NEW g \in HeadType, MapsInv(h, 0), SameMaps(h, g), Weaker(h, g),
         \A d \in Bank : g.commitment[d] >= h.commitment[d]
  PROVE  MapsInv(g, 0)
<1>1. SignaturesAgree(g) /\ BlocksProjected(g, 0)
  BY DEF MapsInv, SameMaps, SignaturesAgree, BlocksProjected
<1>2. BlocksPlaced(g)
  <2>1. \A d \in Bank : g.commitment[d] \in Level /\ h.commitment[d] \in Level
    BY DEF HeadType
  <2>2. Minimum \in Level
    BY ScenarioFacts
  <2>3. g.slotBlock = h.slotBlock /\ h.slotBlock \in [Slot -> Bank \cup {NoBank}]
    BY DEF SameMaps, HeadType
  <2> QED BY <2>1, <2>2, <2>3 DEF MapsInv, BlocksPlaced, Level
<1>3. NodesBacked(g)
  BY DEF MapsInv, SameMaps, Weaker, NodesBacked
<1> QED BY <1>1, <1>2, <1>3 DEF MapsInv

\* The election of a confirmed bank, up to its publication.
LEMMA ElectEffect ==
  ASSUME scenario \in Scenario, NEW h \in HeadType, NEW b \in Bank, MapsInv(h, 0), BanksInv(h),
         b \notin h.discarded, b \in Canonical
  PROVE  LET g == Elect(h, b) IN
         /\ g \in HeadType /\ MapsInv(g, 0)
         /\ g.connected = h.connected /\ g.highest = h.highest /\ g.commitment = h.commitment
         /\ h.discarded \subseteq g.discarded /\ b \notin g.discarded
         /\ BanksInvBut(g, b) /\ g.latest = h.latest
<1> DEFINE s  == slotOf[b]
           L  == {o \in h.banks \ {b} : slotOf[o] = s}
           lost == h.selected[s] \notin {NoBank, b}
           S  == [h.selected EXCEPT ![s] = NoBank]
           f  == [h EXCEPT !.selected = S]
           h1 == IF lost THEN RemoveSlotInner(f, s) ELSE h
           h2 == Forget(h1, L)
           g  == [h2 EXCEPT !.canonical = [h2.canonical EXCEPT ![s] = b], !.discarded = h2.discarded \cup L]
<1>s. s \in Slot /\ b # NoBank
  BY BankFacts
<1>d. \A d \in Bank : slotOf[d] \in Slot /\ d # NoBank
  BY BankFacts
<1>l. L \in SUBSET Bank
  BY DEF HeadType
<1>1. S \in [Slot -> Bank \cup {NoBank}] /\ S[s] = NoBank /\ \A t \in Slot : t # s => S[t] = h.selected[t]
  BY <1>s DEF HeadType
<1>0. f = [h EXCEPT !.selected[s] = NoBank]
  BY DEF HeadType
<1>e. h1 = IF h.selected[s] \notin {NoBank, b} THEN RemoveSlotInner([h EXCEPT !.selected[s] = NoBank], s) ELSE h
  BY <1>0
<1>E. Elect(h, b) = [Forget(h1, L) EXCEPT !.canonical[s] = b, !.discarded = @ \cup L]
  BY <1>e DEF Elect
<1> HIDE DEF S, h1, L
<1>2. f \in HeadType /\ SameMaps(h, f) /\ f.nodes = h.nodes /\ f.commitment = h.commitment /\ f.selected = S
  BY <1>1 DEF HeadType, SameMaps
<1>3. MapsInv(f, 0)
  <2>1. Weaker(h, f)
    BY <1>2 DEF Weaker, Valid
  <2>2. \A d \in Bank : f.commitment[d] >= h.commitment[d]
    BY <1>2 DEF HeadType, Level
  <2> HIDE DEF f
  <2> QED BY <1>2, <2>1, <2>2, SameMapsKeep
<1>4. /\ f.connected = h.connected /\ f.highest = h.highest /\ f.sealed = h.sealed /\ f.footers = h.footers
      /\ f.discarded = h.discarded /\ f.canonical = h.canonical
  BY DEF HeadType
<1> HIDE DEF f
<1>5. lost => Cleared(f, h1, {s})
  BY <1>s, <1>2, RemoveSlotInnerEffect DEF h1
<1>6. ~lost => h1 = h
  BY DEF h1
<1>7. h1 \in HeadType /\ MapsInv(h1, 0)
  <2>1. CASE lost
    <3>1. Cleared(f, h1, {s})
      BY <1>5, <2>1
    <3>2. h1 \in HeadType
      BY <3>1 DEF Cleared
    <3> QED BY <1>2, <1>3, <1>s, <3>1, <3>2, ClearedKeepsMaps
  <2>2. CASE ~lost
    BY <1>6, <2>2
  <2> QED BY <2>1, <2>2
<1>8. /\ h1.connected = h.connected /\ h1.highest = h.highest /\ h1.sealed = h.sealed /\ h1.footers = h.footers
      /\ h1.discarded = h.discarded /\ h1.commitment = h.commitment /\ h1.latest = h.latest
      /\ h1.selected = IF lost THEN S ELSE h.selected
  BY <1>2, <1>4, <1>5, <1>6 DEF Cleared, SameBanks, SameMaps
<1>9. /\ h2 \in HeadType /\ SameMaps(h1, h2) /\ h2.nodes = h1.nodes
      /\ h2.connected = h.connected /\ h2.highest = h.highest /\ h2.commitment = h.commitment
      /\ h2.selected = h1.selected /\ h2.discarded = h.discarded
      /\ h2.sealed = h.sealed \ L /\ h2.footers = h.footers \ L
  BY <1>7, <1>8, <1>l, ForgetEffect
<1>10. Elect(h, b) = g
  <2> HIDE DEF h2
  <2> QED BY <1>9, <1>E DEF HeadType, h2
<1> HIDE DEF h2
<1>11. /\ g \in HeadType /\ SameMaps(h2, g) /\ g.nodes = h2.nodes
  BY <1>9, <1>l, <1>s DEF HeadType, SameMaps
<1>12. /\ g.connected = h.connected /\ g.highest = h.highest /\ g.commitment = h.commitment
       /\ g.selected = h1.selected /\ g.discarded = h.discarded \cup L
       /\ g.sealed = h.sealed \ L /\ g.footers = h.footers \ L
  BY <1>9 DEF HeadType
<1> HIDE DEF g
<1>13. SameMaps(h1, g)
  BY <1>9, <1>11 DEF SameMaps
<1>14. MapsInv(g, 0)
  <2>1. Weaker(h1, g)
    BY <1>9, <1>11 DEF Weaker, Valid
  <2>2. \A d \in Bank : g.commitment[d] >= h1.commitment[d]
    BY <1>8, <1>12 DEF HeadType, Level
  <2> QED BY <1>7, <1>11, <1>13, <2>1, <2>2, SameMapsKeep
<1>15. b \notin g.discarded
  BY <1>12 DEF L
<1>16. /\ \A t \in Slot : t # s \/ g.selected[s] = h.selected[s] =>
           /\ g.selected[t] = h.selected[t] /\ g.slotBlock[t] = h.slotBlock[t]
           /\ g.slotCommitment[t] = h.slotCommitment[t]
           /\ (t \in g.slotFooter <=> t \in h.slotFooter)
       /\ g.selected[s] # h.selected[s] => g.selected[s] = NoBank /\ g.slotBlock[s] = NoBank
       /\ \A x \in Sig :
           h.metaBySig[x] # NoBank /\ (slotOf[h.metaBySig[x]] # s \/ g.selected[s] = h.selected[s])
             => g.metaBySig[x] = h.metaBySig[x]
       /\ g.latest = h.latest
  <2>1. CASE lost
    <3>1. g.selected[s] # h.selected[s] /\ g.selected = S
      BY <1>1, <1>8, <1>12, <2>1
    <3>2. Cleared(f, h1, {s}) /\ SameMaps(h, f)
      BY <1>2, <1>5, <2>1
    <3> QED BY <1>1, <1>13, <1>s, <3>1, <3>2 DEF Cleared, SameMaps
  <2>2. CASE ~lost
    BY <1>6, <1>8, <1>12, <1>13, <2>2 DEF SameMaps
  <2> QED BY <2>1, <2>2
<1>17. ASSUME NEW t \in Slot, g.selected[t] # NoBank
       PROVE  g.selected[t] \in g.sealed /\ g.selected[t] \notin g.discarded
  <2>1. g.selected[t] = h.selected[t] /\ (t = s => h.selected[s] = b)
    BY <1>1, <1>8, <1>12, <1>17
  <2>2. slotOf[h.selected[t]] = t /\ h.selected[t] \notin h.discarded /\ h.selected[t] \in h.sealed
    BY <1>17, <2>1 DEF BanksInv, SelectedIsShown
  <2>3. h.selected[t] \notin L
    BY <2>1, <2>2 DEF L
  <2> QED BY <1>12, <2>1, <2>2, <2>3
<1>18. CommittedIsCanonical(g)
  BY <1>12 DEF BanksInv, CommittedIsCanonical
<1>19. ASSUME NEW d \in g.sealed \ {b}, g.commitment[d] >= Max({Minimum, 1}), slotOf[d] >= MinRetained(h)
       PROVE  g.selected[slotOf[d]] = d
  <2>1. d \in Bank /\ d \in h.sealed /\ h.commitment[d] >= Max({Minimum, 1}) /\ h.commitment[d] \in Level
    BY <1>11, <1>12, <1>19 DEF HeadType
  <2>2. d \in Canonical
    BY <2>1, MinimumOrOne DEF BanksInv, CommittedIsCanonical, Level
  <2>3. slotOf[d] # s
    BY <1>19, <2>2, HeadCacheAssumption DEF HeadCacheAssumption
  <2>4. h.selected[slotOf[d]] = d
    BY <1>19, <2>1 DEF BanksInv, SealedSelected
  <2> QED BY <1>16, <1>d, <2>1, <2>3, <2>4
<1>20. BanksInvBut(g, b)
  <2>1. g.highest >= h.highest /\ g.commitment[b] >= h.commitment[b]
    BY <1>12 DEF HeadType, Level
  <2>2. g.footers \subseteq h.footers
    BY <1>12
  <2>3. \A d \in Bank : d # b => g.commitment[d] = h.commitment[d]
    BY <1>12
  <2> QED BY <1>s, <1>11, <1>16, <1>17, <1>18, <1>19, <2>1, <2>2, <2>3, LossKeeps
<1> QED BY <1>10, <1>11, <1>12, <1>14, <1>15, <1>16, <1>20

-----------------------------------------------------------------------------
(* What one event does to the head. *)

\* g is a good head of the same session that remembers what h discarded.
Kept(h, g) ==
  /\ g \in HeadType /\ MapsInv(g, 0) /\ BanksInv(g) /\ g.connected = h.connected
  /\ BankFloor(h) <= BankFloor(g)
  /\ \A d \in h.discarded : slotOf[d] >= BankFloor(g) => d \in g.discarded

\* An event ends by forgetting the banks below the floor.
LEMMA RetainBanksKeeps ==
  ASSUME scenario \in Scenario, NEW h \in HeadType, NEW k \in HeadType, MapsInv(k, 0), BanksInv(k),
         k.connected = h.connected, BankFloor(h) <= BankFloor(k), h.discarded \subseteq k.discarded
  PROVE  Kept(h, RetainBanks(k))
BY RetainBanksEffect DEF Kept

\* A commitment of b is recorded.
LEMMA RaiseKeeps ==
  ASSUME scenario \in Scenario, NEW h \in HeadType, NEW g \in HeadType, NEW b \in Bank, MapsInv(h, 0), BanksInvBut(h, b),
         SameMaps(h, g), g.nodes = h.nodes, g.highest >= h.highest,
         g.selected = h.selected, g.discarded = h.discarded, g.sealed = h.sealed, g.footers = h.footers,
         \A d \in Bank : d # b => g.commitment[d] = h.commitment[d],
         g.commitment[b] >= h.commitment[b], g.commitment[b] > 0 => b \in Canonical
  PROVE  MapsInv(g, 0) /\ BanksInvBut(g, b)
<1>1. \A d \in Bank : g.commitment[d] \in Level /\ h.commitment[d] \in Level
  BY DEF HeadType
<1>2. \A d \in Bank : g.commitment[d] >= h.commitment[d]
  BY <1>1 DEF Level
<1>3. MapsInv(g, 0)
  <2>1. Weaker(h, g)
    BY DEF Weaker, Valid
  <2> QED BY <1>2, <2>1, SameMapsKeep
<1>4. MinRetained(g) = MinRetained(h)
  BY DEF SameMaps, MinRetained
<1>5. ShownIsSelected(g)
  <2>1. BankFloor(h) \in Int /\ BankFloor(g) \in Int /\ BankFloor(h) <= BankFloor(g)
    <3>1. g.latest = h.latest /\ h.latest \in Nat
      BY HeadCacheAssumption DEF SameMaps, HeadType, HeadCacheAssumption
    <3> QED BY <3>1, BankFloorGrows
  <2>2. \A t \in Slot : t >= BankFloor(g) => t >= BankFloor(h)
    BY <2>1 DEF Slot
  <2> QED BY <2>2 DEF BanksInvBut, ShownIsSelected, SameMaps
<1>6. SelectedIsShown(g)
  <2>1. Minimum \in Level
    BY ScenarioFacts
  <2>2. \A t \in Slot : h.selected[t] # NoBank => h.selected[t] \in Bank
    BY DEF HeadType
  <2>3. \A t \in Slot : h.selected[t] # NoBank => g.commitment[h.selected[t]] >= Minimum
    BY <1>1, <1>2, <2>1, <2>2 DEF BanksInvBut, SelectedIsShown, Level
  <2> QED BY <1>4, <2>3 DEF BanksInvBut, SelectedIsShown, SameMaps
<1>7. FootersShown(g)
  BY <1>4 DEF BanksInvBut, FootersShown, SameMaps
<1>8. CommittedIsCanonical(g)
  BY DEF BanksInvBut, CommittedIsCanonical
<1>9. \A d \in g.sealed \ {b} : g.commitment[d] >= Max({Minimum, 1}) /\ slotOf[d] >= MinRetained(g)
                                 => g.selected[slotOf[d]] = d
  BY <1>4 DEF BanksInvBut, HeadType
<1>10. \A s \in Slot :
       g.selected[s] \notin {NoBank, b} /\ g.commitment[g.selected[s]] > 0 /\ s >= MinRetained(g) =>
       /\ g.slotCommitment[s] >= 1
       /\ \A x \in Range(txsOf[g.selected[s]]) : g.metaBySig[x] = g.selected[s]
  <2>1. \A t \in Slot : h.selected[t] # NoBank => h.selected[t] \in Bank
    BY DEF HeadType
  <2> QED BY <1>4, <2>1 DEF BanksInvBut, SameMaps
<1> QED BY <1>3, <1>5, <1>6, <1>7, <1>8, <1>9, <1>10 DEF BanksInvBut

\* What a commitment update does to the head.
Committed(h, b, c) ==
  LET s  == slotOf[b]
      h1 == IF c > 0 THEN Elect(h, b) ELSE h
      h2 == [h1 EXCEPT !.highest = Max({@, s}), !.banks = @ \cup {b},
                       !.observed = @ \cup {b}, !.commitment[b] = Max({@, c})]
      h3 == Observe(PublishBank(h2, b), s, c)
      h4 == IF h3.selected[s] = b
            THEN PublishNode(ValidateParent(h3, s, ParentSlot(b)), s, c) ELSE h3
  IN  RetainBanks(RetainNodes(h4, s))

\* A commitment update, from the election to the retention, keeps the head good.
LEMMA CommittedKeeps ==
  ASSUME scenario \in Scenario, NEW h \in HeadType, NEW b \in Bank, NEW c \in Level, MapsInv(h, 0), BanksInv(h),
         c > 0 => b \in Canonical, AcceptBank(h, b)
  PROVE  Kept(h, Committed(h, b, c))
<1> DEFINE s  == slotOf[b]
           h1 == IF c > 0 THEN Elect(h, b) ELSE h
           h2 == [h1 EXCEPT !.highest = Max({@, s}), !.banks = @ \cup {b},
                            !.observed = @ \cup {b}, !.commitment[b] = Max({@, c})]
           p  == PublishBank(h2, b)
           h3 == Observe(p, s, c)
           v  == ValidateParent(h3, s, ParentSlot(b))
           n  == PublishNode(v, s, c)
           h4 == IF h3.selected[s] = b THEN n ELSE h3
           k  == RetainNodes(h4, s)
<1>0. Committed(h, b, c) = RetainBanks(k)
  BY DEF Committed
<1>s. s \in Slot /\ s \in 0..MaxSlot /\ s \in Int /\ b # NoBank
  BY BankFacts, HeadCacheAssumption DEF Slot, HeadCacheAssumption
<1>a. slotOf[b] >= BankFloor(h) /\ b \notin h.discarded
  BY DEF AcceptBank
<1>t. /\ h.highest \in 0..MaxSlot /\ h.latest \in 0..MaxSlot /\ h.commitment[b] \in Level /\ MaxSlot \in Nat
      /\ h.highest \in Int /\ h.latest \in Int /\ h.commitment[b] \in Int /\ c \in Int
  BY HeadCacheAssumption DEF HeadType, HeadCacheAssumption, Level
<1>b. BanksInvBut(h, b)
  BY DEF BanksInv, BanksInvBut, SealedSelected, SelectedIsWhole
<1>1. /\ h1 \in HeadType /\ MapsInv(h1, 0) /\ BanksInvBut(h1, b)
      /\ h1.connected = h.connected /\ h1.highest = h.highest /\ h1.commitment = h.commitment
      /\ h.discarded \subseteq h1.discarded /\ b \notin h1.discarded /\ h1.latest = h.latest
  <2>1. CASE c > 0
    <3>1. h1 = Elect(h, b)
      BY <2>1
    <3> HIDE DEF h1
    <3> QED BY <1>a, <2>1, <3>1, ElectEffect
  <2>2. CASE ~(c > 0)
    BY <1>a, <1>b, <2>2
  <2> QED BY <2>1, <2>2
<1> HIDE DEF h1
<1> DEFINE M == Max({h.highest, s})
           C == [h.commitment EXCEPT ![b] = Max({h.commitment[b], c})]
           e == [h1 EXCEPT !.highest = M, !.banks = h1.banks \cup {b},
                           !.observed = h1.observed \cup {b}, !.commitment = C]
<1>2. h2 = e
  BY <1>1 DEF HeadType
<1>3. M = (IF h.highest >= s THEN h.highest ELSE s) /\ M \in 0..MaxSlot
  BY <1>s, <1>t, MaxPair
<1>4. Max({h.commitment[b], c}) = (IF h.commitment[b] >= c THEN h.commitment[b] ELSE c)
  BY <1>t, MaxPair
<1>5. /\ C \in [Bank -> Level] /\ \A d \in Bank : d # b => C[d] = h.commitment[d]
      /\ C[b] = IF h.commitment[b] >= c THEN h.commitment[b] ELSE c
  BY <1>4, <1>t DEF HeadType
<1>6. C[b] >= h.commitment[b] /\ (C[b] > 0 => b \in Canonical)
  <2>1. h.commitment[b] > 0 => b \in Canonical
    BY DEF BanksInv, CommittedIsCanonical
  <2> QED BY <1>5, <1>t, <2>1
<1> HIDE DEF M, C
<1>7. /\ e \in HeadType /\ SameMaps(h1, e) /\ e.nodes = h1.nodes /\ e.highest = M
      /\ e.selected = h1.selected /\ e.discarded = h1.discarded /\ e.sealed = h1.sealed
      /\ e.footers = h1.footers /\ e.commitment = C /\ e.connected = h1.connected
  BY <1>1, <1>3, <1>5 DEF HeadType, SameMaps
<1> HIDE DEF e, h2
<1>8. h2 \in HeadType /\ MapsInv(h2, 0) /\ BanksInvBut(h2, b)
  <2>1. e.highest >= h1.highest
    BY <1>1, <1>3, <1>7, <1>s, <1>t
  <2> QED BY <1>1, <1>2, <1>5, <1>6, <1>7, <2>1, RaiseKeeps
<1>9. b \notin h2.discarded /\ h.discarded \subseteq h2.discarded /\ h2.connected = h.connected
  BY <1>1, <1>2, <1>7
<1>l. h2.latest = h.latest /\ h2.highest = M
  BY <1>1, <1>2, <1>7 DEF SameMaps
<1>10. slotOf[b] >= BankFloor(h2)
  <2>1. Retain \in Nat \ {0} /\ Pending \in Nat /\ Minimum \in Level
    BY ScenarioFacts
  <2>2. BankFloor(h2) = (IF M >= h.latest THEN M ELSE h.latest)
                             - (Retain - 1 + (IF Minimum > 0 THEN Pending ELSE 0))
    BY <1>8, <1>l, BankFloorValue
  <2>3. BankFloor(h) = (IF h.highest >= h.latest THEN h.highest ELSE h.latest)
                             - (Retain - 1 + (IF Minimum > 0 THEN Pending ELSE 0))
    BY BankFloorValue
  <2> QED BY <1>3, <1>a, <1>s, <1>t, <2>1, <2>2, <2>3
<1>11. p \in HeadType /\ MapsInv(p, 0) /\ BanksInv(p) /\ SameSession(h2, p)
  BY <1>8, <1>9, <1>10, PublishBankEffect
<1> HIDE DEF p
<1>12. h3 \in HeadType /\ SameBanks(p, h3) /\ SameMaps(p, h3) /\ Weaker(p, h3)
  BY <1>11, <1>s, ObserveEffect
<1> HIDE DEF h3
<1>13. v \in HeadType /\ SameBanks(h3, v) /\ SameMaps(h3, v) /\ Weaker(h3, v)
  BY <1>12, <1>s, ValidateParentEffect
<1> HIDE DEF v
<1>14. n \in HeadType /\ SameBanks(v, n) /\ SameMaps(v, n) /\ Weaker(v, n)
  BY <1>13, <1>s, PublishNodeEffect
<1> HIDE DEF n
<1>15. MapsInv(h3, 0) /\ BanksInv(h3)
  BY <1>11, <1>12, ProofStepsKeep
<1>16. MapsInv(v, 0) /\ BanksInv(v)
  BY <1>12, <1>13, <1>15, ProofStepsKeep
<1>17. MapsInv(n, 0) /\ BanksInv(n)
  BY <1>13, <1>14, <1>16, ProofStepsKeep
<1>18. /\ h4 \in HeadType /\ MapsInv(h4, 0) /\ BanksInv(h4)
       /\ h4.connected = p.connected /\ h4.highest = p.highest /\ h4.discarded = p.discarded
       /\ h4.latest = p.latest
  BY <1>12, <1>13, <1>14, <1>15, <1>17 DEF SameBanks, SameMaps
<1> HIDE DEF h4
<1>19. k \in HeadType /\ SameBanks(h4, k) /\ SameMaps(h4, k) /\ Weaker(h4, k)
  BY <1>18, <1>s, RetainNodesEffect
<1> HIDE DEF k
<1>20. MapsInv(k, 0) /\ BanksInv(k)
  BY <1>18, <1>19, ProofStepsKeep
<1>21. k.connected = h.connected /\ h.discarded \subseteq k.discarded /\ k.latest >= h.latest /\ k.highest >= h.highest
  <2>1. k.connected = h.connected /\ h.discarded \subseteq k.discarded
    BY <1>9, <1>11, <1>18, <1>19 DEF SameBanks, SameSession
  <2>2. k.latest >= h.latest
    BY <1>11, <1>18, <1>19, <1>l DEF SameMaps, SameSession
  <2>3. k.highest = M
    BY <1>11, <1>18, <1>19, <1>l DEF SameBanks, SameSession
  <2> QED BY <1>3, <1>s, <1>t, <2>1, <2>2, <2>3
<1>22. BankFloor(h) <= BankFloor(k)
  BY <1>19, <1>21, BankFloorGrows
<1> QED BY <1>0, <1>19, <1>20, <1>21, <1>22, RetainBanksKeeps

\* The metadata of a bank is staged.
LEMMA MetadataKeeps ==
  ASSUME scenario \in Scenario, NEW h \in HeadType, NEW b \in Bank, MapsInv(h, 0), BanksInv(h)
  PROVE  Kept(h, RetainBanks([h EXCEPT !.highest = Max({@, slotOf[b]}), !.banks = @ \cup {b},
                                       !.metadata = @ \cup {b}]))
<1> DEFINE M == Max({h.highest, slotOf[b]})
           g == [h EXCEPT !.highest = M, !.banks = h.banks \cup {b}, !.metadata = h.metadata \cup {b}]
<1>0. g = [h EXCEPT !.highest = Max({@, slotOf[b]}), !.banks = @ \cup {b}, !.metadata = @ \cup {b}]
  BY DEF HeadType
<1>1. /\ slotOf[b] \in 0..MaxSlot /\ h.highest \in 0..MaxSlot /\ MaxSlot \in Nat
      /\ slotOf[b] \in Int /\ h.highest \in Int /\ h.latest \in Int
  BY BankFacts, HeadCacheAssumption DEF HeadCacheAssumption, HeadType
<1>2. M \in 0..MaxSlot /\ M >= h.highest
  BY <1>1, MaxPair
<1> HIDE DEF M
<1>3. /\ g \in HeadType /\ SameMaps(h, g) /\ g.nodes = h.nodes /\ g.highest = M
      /\ g.selected = h.selected /\ g.discarded = h.discarded /\ g.sealed = h.sealed
      /\ g.footers = h.footers /\ g.commitment = h.commitment /\ g.connected = h.connected
  BY <1>2 DEF HeadType, SameMaps
<1> HIDE DEF g
<1>4. FootersShown(g)
  BY <1>3 DEF SameMaps, BanksInv, FootersShown, MinRetained
<1>5. MapsInv(g, 0) /\ BanksInv(g)
  BY <1>2, <1>3, <1>4, StageKeeps DEF SameMaps
<1>6. BankFloor(h) <= BankFloor(g)
  <2>1. g.latest >= h.latest /\ g.highest >= h.highest
    BY <1>1, <1>2, <1>3 DEF SameMaps
  <2> QED BY <1>3, <2>1, BankFloorGrows
<1>7. Kept(h, RetainBanks(g))
  BY <1>3, <1>5, <1>6, RetainBanksKeeps
<1> QED BY <1>0, <1>7

\* A footer is staged, and shown if its bank is.
LEMMA FooterKeeps ==
  ASSUME scenario \in Scenario, NEW h \in HeadType, NEW b \in Bank, MapsInv(h, 0), BanksInv(h)
  PROVE  Kept(h, RetainBanks(
           [h EXCEPT !.banks = @ \cup {b}, !.footers = @ \cup {b},
                     !.slotFooter = IF h.selected[slotOf[b]] = b /\ h.slotBlock[slotOf[b]] # NoBank
                                    THEN @ \cup {slotOf[b]} ELSE @]))
<1> DEFINE F == IF h.selected[slotOf[b]] = b /\ h.slotBlock[slotOf[b]] # NoBank
                THEN h.slotFooter \cup {slotOf[b]} ELSE h.slotFooter
           g == [h EXCEPT !.banks = h.banks \cup {b}, !.footers = h.footers \cup {b}, !.slotFooter = F]
<1>0. g = [h EXCEPT !.banks = @ \cup {b}, !.footers = @ \cup {b},
                    !.slotFooter = IF h.selected[slotOf[b]] = b /\ h.slotBlock[slotOf[b]] # NoBank
                                   THEN @ \cup {slotOf[b]} ELSE @]
  BY DEF HeadType
<1>1. slotOf[b] \in Slot /\ b # NoBank
  BY BankFacts
<1>2. /\ F \in SUBSET Slot /\ h.slotFooter \subseteq F
      /\ h.selected[slotOf[b]] = b /\ h.slotBlock[slotOf[b]] # NoBank => slotOf[b] \in F
  BY <1>1 DEF HeadType
<1> HIDE DEF F
<1>3. /\ g \in HeadType /\ g.nodes = h.nodes /\ g.highest = h.highest /\ g.latest = h.latest
      /\ g.slotBlock = h.slotBlock /\ g.slotCommitment = h.slotCommitment
      /\ g.metaBySig = h.metaBySig /\ g.sigsBySlot = h.sigsBySlot /\ g.slotFooter = F
      /\ g.selected = h.selected /\ g.discarded = h.discarded /\ g.sealed = h.sealed
      /\ g.footers = h.footers \cup {b} /\ g.commitment = h.commitment /\ g.connected = h.connected
  BY <1>2 DEF HeadType
<1> HIDE DEF g
<1>4. FootersShown(g)
  <2>1. SUFFICES ASSUME NEW d \in g.footers, g.selected[slotOf[d]] = d, slotOf[d] >= MinRetained(g)
                 PROVE  slotOf[d] \in g.slotFooter
    BY DEF FootersShown
  <2>2. MinRetained(g) = MinRetained(h)
    BY <1>3 DEF MinRetained
  <2>3. CASE d = b
    <3>1. h.slotBlock[slotOf[b]] = b
      BY <1>1, <1>3, <2>1, <2>2, <2>3 DEF BanksInv, SelectedIsShown
    <3> QED BY <1>1, <1>2, <1>3, <2>1, <2>3, <3>1
  <2>4. CASE d # b
    BY <1>2, <1>3, <2>1, <2>2, <2>4 DEF BanksInv, FootersShown
  <2> QED BY <2>3, <2>4
<1>5. g.highest >= h.highest /\ g.latest >= h.latest
  BY <1>3, HeadCacheAssumption DEF HeadType, HeadCacheAssumption
<1>6. MapsInv(g, 0) /\ BanksInv(g)
  BY <1>3, <1>4, <1>5, StageKeeps
<1>7. BankFloor(h) <= BankFloor(g)
  BY <1>3, <1>5, BankFloorGrows
<1>8. Kept(h, RetainBanks(g))
  BY <1>3, <1>6, <1>7, RetainBanksKeeps
<1> QED BY <1>0, <1>8

\* The entries of a bank are staged.
LEMMA EntriesKeep ==
  ASSUME scenario \in Scenario, NEW h \in HeadType, NEW b \in Bank, MapsInv(h, 0), BanksInv(h)
  PROVE  Kept(h, [h EXCEPT !.banks = @ \cup {b}, !.entries = @ \cup {b}])
<1> DEFINE g == [h EXCEPT !.banks = h.banks \cup {b}, !.entries = h.entries \cup {b}]
<1>0. g = [h EXCEPT !.banks = @ \cup {b}, !.entries = @ \cup {b}]
  BY DEF HeadType
<1>3. /\ g \in HeadType /\ SameMaps(h, g) /\ g.nodes = h.nodes /\ g.highest = h.highest
      /\ g.selected = h.selected /\ g.discarded = h.discarded /\ g.sealed = h.sealed
      /\ g.footers = h.footers /\ g.commitment = h.commitment /\ g.connected = h.connected
  BY DEF HeadType, SameMaps
<1> HIDE DEF g
<1>4. FootersShown(g)
  BY <1>3 DEF SameMaps, BanksInv, FootersShown, MinRetained
<1>5. g.highest >= h.highest /\ g.latest >= h.latest
  BY <1>3, HeadCacheAssumption DEF HeadType, HeadCacheAssumption, SameMaps
<1>6. MapsInv(g, 0) /\ BanksInv(g)
  BY <1>3, <1>4, <1>5, StageKeeps DEF SameMaps
<1>7. BankFloor(h) <= BankFloor(g)
  BY <1>3, <1>5, BankFloorGrows
<1>8. Kept(h, g)
  BY <1>3, <1>6, <1>7 DEF Kept
<1> QED BY <1>0, <1>8

\* A whole bank is sealed and published.
LEMMA SealKeeps ==
  ASSUME scenario \in Scenario, NEW h \in HeadType, NEW b \in Bank, MapsInv(h, 0), BanksInv(h), AcceptBank(h, b)
  PROVE  Kept(h, RetainBanks(PublishBank([h EXCEPT !.sealed = @ \cup {b}], b)))
<1> DEFINE g == [h EXCEPT !.sealed = h.sealed \cup {b}]
           p == PublishBank(g, b)
<1>0. g = [h EXCEPT !.sealed = @ \cup {b}]
  BY DEF HeadType
<1>3. /\ g \in HeadType /\ SameMaps(h, g) /\ g.nodes = h.nodes /\ g.highest = h.highest
      /\ g.selected = h.selected /\ g.discarded = h.discarded /\ g.sealed = h.sealed \cup {b}
      /\ g.footers = h.footers /\ g.commitment = h.commitment /\ g.connected = h.connected
  BY DEF HeadType, SameMaps
<1> HIDE DEF g
<1>4. FootersShown(g)
  BY <1>3 DEF SameMaps, BanksInv, FootersShown, MinRetained
<1>5. g.highest >= h.highest /\ g.latest >= h.latest
  BY <1>3, HeadCacheAssumption DEF HeadType, HeadCacheAssumption, SameMaps
<1>6. MapsInv(g, 0) /\ BanksInvBut(g, b)
  BY <1>3, <1>4, <1>5, StageKeeps DEF SameMaps
<1>7. b \notin g.discarded /\ slotOf[b] >= BankFloor(g)
  BY <1>3 DEF AcceptBank, BankFloor, SameMaps
<1>8. p \in HeadType /\ MapsInv(p, 0) /\ BanksInv(p) /\ SameSession(g, p)
  BY <1>3, <1>6, <1>7, PublishBankEffect
<1> HIDE DEF p
<1>9. p.connected = h.connected /\ h.discarded \subseteq p.discarded /\ p.highest = h.highest /\ p.latest >= h.latest
  BY <1>3, <1>8 DEF SameSession, SameMaps
<1>10. p.highest >= h.highest
  BY <1>9, HeadCacheAssumption DEF HeadType, HeadCacheAssumption
<1>11. BankFloor(h) <= BankFloor(p)
  BY <1>8, <1>9, <1>10, BankFloorGrows
<1>12. Kept(h, RetainBanks(p))
  BY <1>8, <1>9, <1>11, RetainBanksKeeps
<1> QED BY <1>0, <1>12 DEF p

\* What the discard of a bank does to the head.
DiscardedFrom(h, b) ==
  LET s  == slotOf[b]
      h1 == Forget([h EXCEPT !.discarded = @ \cup {b}], {b})
      h2 == IF h.selected[s] = b
            THEN RemoveSlot([h1 EXCEPT !.selected[s] = NoBank], s) ELSE h1
  IN  RetainBanks(h2)

\* A discarded bank leaves maps, proof and bank state, and is remembered.
LEMMA DiscardKeeps ==
  ASSUME scenario \in Scenario, NEW h \in HeadType, NEW b \in Bank, MapsInv(h, 0), BanksInv(h)
  PROVE  LET g == DiscardedFrom(h, b) IN
         Kept(h, g) /\ (slotOf[b] >= BankFloor(g) => b \in g.discarded)
<1> DEFINE s == slotOf[b]
           a == [h EXCEPT !.discarded = h.discarded \cup {b}]
           e == Forget(a, {b})
           S == [e.selected EXCEPT ![s] = NoBank]
           f == [e EXCEPT !.selected = S]
           i == InvalidateBranch(f, s)
           r == RemoveSlotInner(i, s)
           was == h.selected[s] = b
           g == IF was THEN r ELSE e
<1>s. s \in Slot /\ b # NoBank
  BY BankFacts
<1>d. \A d \in Bank : slotOf[d] \in Slot /\ d # NoBank
  BY BankFacts
<1>1. /\ a \in HeadType /\ SameMaps(h, a) /\ a.nodes = h.nodes /\ a.highest = h.highest
      /\ a.selected = h.selected /\ a.discarded = h.discarded \cup {b} /\ a.sealed = h.sealed
      /\ a.footers = h.footers /\ a.commitment = h.commitment /\ a.connected = h.connected
  BY DEF HeadType, SameMaps
<1>2. a = [h EXCEPT !.discarded = @ \cup {b}]
  BY DEF HeadType
<1>3. /\ e \in HeadType /\ SameMaps(a, e) /\ e.nodes = a.nodes
      /\ e.connected = a.connected /\ e.highest = a.highest /\ e.commitment = a.commitment
      /\ e.selected = a.selected /\ e.discarded = a.discarded
      /\ e.sealed = a.sealed \ {b} /\ e.footers = a.footers \ {b}
  <2> HIDE DEF a
  <2> QED BY <1>1, ForgetEffect
<1>4. DiscardedFrom(h, b) = RetainBanks(g)
  <2>1. f = [e EXCEPT !.selected[s] = NoBank]
    BY <1>3 DEF HeadType
  <2> HIDE DEF f, e, a
  <2>2. DiscardedFrom(h, b) = RetainBanks(IF was THEN RemoveSlot(f, s) ELSE e)
    BY <1>2, <2>1 DEF DiscardedFrom, e
  <2> QED BY <2>2 DEF RemoveSlot
<1> HIDE DEF e, a
<1>5. /\ e \in HeadType /\ SameMaps(h, e) /\ e.nodes = h.nodes
      /\ e.connected = h.connected /\ e.highest = h.highest /\ e.commitment = h.commitment
      /\ e.selected = h.selected /\ e.discarded = h.discarded \cup {b}
      /\ e.sealed = h.sealed \ {b} /\ e.footers = h.footers \ {b}
  BY <1>1, <1>3 DEF SameMaps
<1>6. S \in [Slot -> Bank \cup {NoBank}] /\ S[s] = NoBank /\ \A t \in Slot : t # s => S[t] = h.selected[t]
  BY <1>5, <1>s DEF HeadType
<1> HIDE DEF S
<1>7. /\ f \in HeadType /\ SameMaps(e, f) /\ f.nodes = e.nodes
      /\ f.connected = e.connected /\ f.highest = e.highest /\ f.commitment = e.commitment
      /\ f.selected = S /\ f.discarded = e.discarded /\ f.sealed = e.sealed /\ f.footers = e.footers
  BY <1>5, <1>6 DEF HeadType, SameMaps
<1> HIDE DEF f
<1>8. i \in HeadType /\ SameBanks(f, i) /\ SameMaps(f, i) /\ Weaker(f, i)
  BY <1>7, <1>s, InvalidateBranchEffect
<1> HIDE DEF i
<1>9. Cleared(i, r, {s})
  BY <1>8, <1>s, RemoveSlotInnerEffect
<1>10. r \in HeadType /\ SameBanks(i, r)
  BY <1>9 DEF Cleared
<1> HIDE DEF r
<1>11. g \in HeadType
  BY <1>5, <1>10
<1>12. /\ g.connected = h.connected /\ g.highest = h.highest /\ g.commitment = h.commitment
       /\ g.selected = (IF was THEN S ELSE h.selected) /\ g.discarded = h.discarded \cup {b}
       /\ g.sealed = h.sealed \ {b} /\ g.footers = h.footers \ {b}
  BY <1>5, <1>7, <1>8, <1>10 DEF SameBanks
<1>13. MapsInv(g, 0)
  <2>1. MapsInv(e, 0)
    <3>1. Weaker(h, e)
      BY <1>5 DEF Weaker, Valid
    <3>2. \A d \in Bank : e.commitment[d] >= h.commitment[d]
      BY <1>5 DEF HeadType, Level
    <3> QED BY <1>5, <3>1, <3>2, SameMapsKeep
  <2>2. MapsInv(i, 0)
    <3>1. Weaker(e, i) /\ SameMaps(e, i) /\ i.commitment = e.commitment
      BY <1>7, <1>8 DEF Weaker, Valid, SameMaps, SameBanks
    <3>2. \A d \in Bank : i.commitment[d] >= e.commitment[d]
      BY <1>5, <3>1 DEF HeadType, Level
    <3> QED BY <1>5, <1>8, <2>1, <3>1, <3>2, SameMapsKeep
  <2>3. MapsInv(r, 0)
    BY <1>8, <1>9, <2>2, ClearedKeepsMaps
  <2> QED BY <2>1, <2>3
<1>14. SameMaps(h, i)
  BY <1>5, <1>7, <1>8 DEF SameMaps
<1>15. /\ \A t \in Slot : t # s \/ g.selected[s] = h.selected[s] =>
           /\ g.selected[t] = h.selected[t] /\ g.slotBlock[t] = h.slotBlock[t]
           /\ g.slotCommitment[t] = h.slotCommitment[t]
           /\ (t \in g.slotFooter <=> t \in h.slotFooter)
       /\ g.selected[s] # h.selected[s] => g.selected[s] = NoBank /\ g.slotBlock[s] = NoBank
       /\ \A x \in Sig :
           h.metaBySig[x] # NoBank /\ (slotOf[h.metaBySig[x]] # s \/ g.selected[s] = h.selected[s])
             => g.metaBySig[x] = h.metaBySig[x]
       /\ g.latest = h.latest
  <2>1. CASE was
    <3>1. g = r /\ g.selected = S /\ g.selected[s] # h.selected[s]
      BY <1>6, <1>12, <1>s, <2>1
    <3> HIDE DEF g
    <3> QED BY <1>6, <1>9, <1>14, <1>s, <3>1 DEF Cleared, SameMaps
  <2>2. CASE ~was
    <3>1. g = e /\ g.selected = h.selected
      BY <1>12, <2>2
    <3> HIDE DEF g
    <3> QED BY <1>5, <1>12, <3>1 DEF SameMaps
  <2> QED BY <2>1, <2>2
<1> HIDE DEF g
<1>16. \A t \in Slot : g.selected[t] # b
  <2>1. SUFFICES ASSUME NEW t \in Slot, g.selected[t] = b PROVE FALSE
    OBVIOUS
  <2>2. g.selected[t] = h.selected[t] /\ (t = s => ~was)
    BY <1>6, <1>12, <1>s, <2>1
  <2>3. slotOf[h.selected[t]] = t
    BY <1>s, <2>1, <2>2 DEF BanksInv, SelectedIsShown
  <2> QED BY <2>1, <2>2, <2>3
<1>17. ASSUME NEW t \in Slot, g.selected[t] # NoBank
       PROVE  g.selected[t] \in g.sealed /\ g.selected[t] \notin g.discarded
  <2>1. g.selected[t] = h.selected[t]
    BY <1>15, <1>17
  <2>2. h.selected[t] \notin h.discarded /\ h.selected[t] \in h.sealed
    BY <1>17, <2>1 DEF BanksInv, SelectedIsShown
  <2> QED BY <1>12, <1>16, <2>1, <2>2
<1>18. CommittedIsCanonical(g)
  BY <1>12 DEF BanksInv, CommittedIsCanonical
<1>19. ASSUME NEW d \in g.sealed \ {b}, g.commitment[d] >= Max({Minimum, 1}), slotOf[d] >= MinRetained(h)
       PROVE  g.selected[slotOf[d]] = d
  <2>1. d \in Bank /\ d \in h.sealed /\ h.commitment[d] >= Max({Minimum, 1})
    BY <1>11, <1>12, <1>19 DEF HeadType
  <2>2. h.selected[slotOf[d]] = d
    BY <1>19, <2>1 DEF BanksInv, SealedSelected
  <2>3. slotOf[d] # s \/ ~was
    BY <1>19, <2>2
  <2> QED BY <1>6, <1>12, <1>d, <2>1, <2>2, <2>3
<1>20. g.highest >= h.highest /\ g.latest >= h.latest /\ g.commitment[b] >= h.commitment[b]
  <2>1. h.highest \in Int /\ h.latest \in Int /\ h.commitment[b] \in Int
    BY HeadCacheAssumption DEF HeadType, HeadCacheAssumption, Level
  <2> QED BY <1>12, <1>15, <2>1
<1>21. BanksInvBut(g, b)
  <2>1. g.footers \subseteq h.footers
    BY <1>12
  <2>2. \A d \in Bank : d # b => g.commitment[d] = h.commitment[d]
    BY <1>12
  <2>3. \A t \in Slot : g.selected[t] # NoBank => g.selected[t] \in g.sealed /\ g.selected[t] \notin g.discarded
    BY <1>17
  <2>4. \A d \in g.sealed \ {b} : g.commitment[d] >= Max({Minimum, 1}) /\ slotOf[d] >= MinRetained(h)
                                     => g.selected[slotOf[d]] = d
    BY <1>19
  <2>5. g.highest >= h.highest /\ g.commitment[b] >= h.commitment[b]
    BY <1>20
  <2>6. \A t \in Slot : t # s \/ g.selected[s] = h.selected[s] =>
           /\ g.selected[t] = h.selected[t] /\ g.slotBlock[t] = h.slotBlock[t]
           /\ g.slotCommitment[t] = h.slotCommitment[t]
           /\ (t \in g.slotFooter <=> t \in h.slotFooter)
    BY <1>15
  <2>7. \A x \in Sig :
           h.metaBySig[x] # NoBank /\ (slotOf[h.metaBySig[x]] # s \/ g.selected[s] = h.selected[s])
             => g.metaBySig[x] = h.metaBySig[x]
    BY <1>15
  <2>8. g.latest = h.latest
    BY <1>15
  <2>9. g.selected[s] # h.selected[s] => g.selected[s] = NoBank /\ g.slotBlock[s] = NoBank
    BY <1>15
  <2>10. s = slotOf[b] /\ s \in Slot
    BY <1>s
  <2> HIDE DEF was, s
  <2> QED BY <2>10, <1>11, <1>18, <2>1, <2>2, <2>3, <2>4, <2>5, <2>6, <2>7, <2>8, <2>9, LossKeeps
<1>22. BanksInv(g)
  <2>1. b \notin g.sealed
    BY <1>12
  <2> QED BY <1>16, <1>21, <2>1 DEF BanksInv, BanksInvBut, SealedSelected, SelectedIsWhole
<1>23. BankFloor(h) <= BankFloor(g)
  BY <1>11, <1>20, BankFloorGrows
<1>24. Kept(h, RetainBanks(g))
  BY <1>11, <1>12, <1>13, <1>22, <1>23, RetainBanksKeeps
<1>25. slotOf[b] >= BankFloor(RetainBanks(g)) => b \in RetainBanks(g).discarded
  <2>1. b \in g.discarded
    BY <1>12
  <2>2. /\ BankFloor(RetainBanks(g)) = BankFloor(g)
        /\ \A d \in g.discarded : slotOf[d] >= BankFloor(g) => d \in RetainBanks(g).discarded
    BY <1>11, <1>13, <1>22, RetainBanksEffect
  <2> QED BY <2>1, <2>2
<1> QED BY <1>4, <1>24, <1>25

\* A head that shows nothing and knows no banks is a good one.
LEMMA EmptyIsGood ==
  ASSUME scenario \in Scenario, NEW h \in HeadType,
         \A s \in Slot : /\ h.slotBlock[s] = NoBank /\ h.selected[s] = NoBank
                         /\ h.sigsBySlot[s] = {} /\ Valid(h, s) = NoBank,
         \A x \in Sig : h.metaBySig[x] = NoBank, h.sealed = {}, h.footers = {}, CommittedIsCanonical(h)
  PROVE  MapsInv(h, 0) /\ BanksInv(h)
<1>1. MapsInv(h, 0)
  BY DEF MapsInv, SignaturesAgree, BlocksPlaced, BlocksProjected, NodesBacked
<1>2. BanksInv(h)
  BY DEF BanksInv, ShownIsSelected, SelectedIsShown, FootersShown, SealedSelected, SelectedIsWhole
<1> QED BY <1>1, <1>2

\* A new session.
LEMMA FreshIsGood ==
  ASSUME scenario \in Scenario
  PROVE  Fresh \in HeadType /\ MapsInv(Fresh, 0) /\ BanksInv(Fresh) /\ Fresh.connected
<1>1. MaxSlot \in Nat \ {0}
  BY HeadCacheAssumption DEF HeadCacheAssumption
<1>2. {} \in FiniteKeys
  BY FS_EmptySet DEF FiniteKeys
<1>3. NoNode \in NodeType /\ ~NoNode.present
  BY NewNodeTyped
<1>4. Fresh \in HeadType
  BY <1>1, <1>2, <1>3 DEF Fresh, HeadType, NoSlots, Level
<1>5. /\ \A s \in Slot : /\ Fresh.slotBlock[s] = NoBank /\ Fresh.selected[s] = NoBank
                         /\ Fresh.sigsBySlot[s] = {} /\ Fresh.nodes[s] = NoNode
      /\ \A x \in Sig : Fresh.metaBySig[x] = NoBank
      /\ \A d \in Bank : Fresh.commitment[d] = 0
      /\ Fresh.sealed = {} /\ Fresh.footers = {} /\ Fresh.connected
  BY DEF Fresh, NoSlots
<1> HIDE DEF Fresh
<1>6. \A s \in Slot : Valid(Fresh, s) = NoBank
  BY <1>3, <1>5 DEF Valid
<1>7. CommittedIsCanonical(Fresh)
  BY <1>5 DEF CommittedIsCanonical
<1> QED BY <1>4, <1>5, <1>6, <1>7, EmptyIsGood

\* What the end of a session leaves of the head.
Ended(h) ==
  [RemoveSlots(h, Projected(h)) EXCEPT
     !.connected = FALSE, !.banks = {}, !.metadata = {}, !.footers = {},
     !.entries = {}, !.sealed = {}, !.observed = {},
     !.selected = NoSlots(NoBank), !.canonical = NoSlots(NoBank),
     !.discarded = {}, !.latest = 0,
     !.nodes = NoSlots(NoNode), !.tips = [c \in Level |-> 0],
     !.proofHighest = 0]

\* The end of a session leaves no block: every slot that shows one has a commitment.
LEMMA EndedIsGood ==
  ASSUME scenario \in Scenario, NEW h \in HeadType, MapsInv(h, 0), BanksInv(h)
  PROVE  LET g == Ended(h) IN
         /\ g \in HeadType /\ MapsInv(g, 0) /\ BanksInv(g) /\ ~g.connected
         /\ \A s \in Slot : g.slotBlock[s] = NoBank
<1> DEFINE P == Projected(h)
           r == RemoveSlots(h, P)
           g == Ended(h)
<1>1. P \in SUBSET Slot /\ \A s \in Slot : h.slotCommitment[s] # -1 <=> s \in P
  BY DEF Projected
<1> HIDE DEF P
<1>2. Cleared(h, r, P)
  BY <1>1, RemoveSlotsEffect
<1>3. g = [r EXCEPT
     !.connected = FALSE, !.banks = {}, !.metadata = {}, !.footers = {},
     !.entries = {}, !.sealed = {}, !.observed = {},
     !.selected = NoSlots(NoBank), !.canonical = NoSlots(NoBank),
     !.discarded = {}, !.latest = 0,
     !.nodes = NoSlots(NoNode), !.tips = [c \in Level |-> 0],
     !.proofHighest = 0]
  BY DEF Ended, P
<1>4. r \in HeadType /\ r.commitment = h.commitment /\ MapsInv(r, 0)
  <2>1. r \in HeadType /\ r.commitment = h.commitment
    BY <1>2 DEF Cleared, SameBanks
  <2> QED BY <1>2, <2>1, ClearedKeepsMaps
<1> HIDE DEF r
<1>5. \A s \in Slot : r.slotBlock[s] = NoBank
  <2>1. SUFFICES ASSUME NEW s \in Slot PROVE r.slotBlock[s] = NoBank
    OBVIOUS
  <2>2. CASE s \in P
    BY <1>2, <2>2 DEF Cleared
  <2>3. CASE s \notin P
    <3>1. s # 0
      BY DEF Slot
    <3>2. h.slotBlock[s] = NoBank
      BY <1>1, <2>3, <3>1 DEF MapsInv, BlocksProjected
    <3> QED BY <1>2, <2>3, <3>2 DEF Cleared
  <2> QED BY <2>2, <2>3
<1>6. \A x \in Sig : r.metaBySig[x] = NoBank
  <2>1. SUFFICES ASSUME NEW x \in Sig, r.metaBySig[x] # NoBank PROVE FALSE
    OBVIOUS
  <2>2. r.metaBySig[x] \in Bank
    BY <1>4, <2>1 DEF HeadType
  <2>3. slotOf[r.metaBySig[x]] \in Slot
    BY <2>2, BankFacts
  <2> QED BY <1>4, <1>5, <2>1, <2>3 DEF MapsInv, SignaturesAgree
<1>7. \A s \in Slot : r.sigsBySlot[s] = {}
  <2>1. SUFFICES ASSUME NEW s \in Slot, NEW x \in r.sigsBySlot[s] PROVE FALSE
    OBVIOUS
  <2>2. x \in Sig
    BY <1>4 DEF HeadType
  <2> QED BY <1>4, <1>6, <2>2 DEF MapsInv, SignaturesAgree
<1>8. MaxSlot \in Nat \ {0} /\ NoNode \in NodeType /\ ~NoNode.present
  BY NewNodeTyped, HeadCacheAssumption DEF HeadCacheAssumption
<1>9. /\ NoSlots(NoBank) \in [Slot -> Bank \cup {NoBank}] /\ \A s \in Slot : NoSlots(NoBank)[s] = NoBank
      /\ NoSlots(NoNode) \in [Slot -> NodeType] /\ \A s \in Slot : NoSlots(NoNode)[s] = NoNode
      /\ [c \in Level |-> 0] \in [Level -> 0..MaxSlot]
  BY <1>8 DEF NoSlots
<1>10. g \in HeadType
  <2> DEFINE noBanks == NoSlots(NoBank)
             noNodes == NoSlots(NoNode)
             noTips  == [c \in Level |-> 0]
  <2>1. /\ noBanks \in [Slot -> Bank \cup {NoBank}] /\ noNodes \in [Slot -> NodeType]
        /\ noTips \in [Level -> 0..MaxSlot] /\ 0 \in 0..MaxSlot
    BY <1>8, <1>9
  <2>2. g = [r EXCEPT
     !.connected = FALSE, !.banks = {}, !.metadata = {}, !.footers = {},
     !.entries = {}, !.sealed = {}, !.observed = {},
     !.selected = noBanks, !.canonical = noBanks,
     !.discarded = {}, !.latest = 0,
     !.nodes = noNodes, !.tips = noTips,
     !.proofHighest = 0]
    BY <1>3
  <2> HIDE DEF noBanks, noNodes, noTips, g
  <2> QED BY <1>4, <2>1, <2>2 DEF HeadType
<1>11. /\ g.slotBlock = r.slotBlock /\ g.sigsBySlot = r.sigsBySlot /\ g.metaBySig = r.metaBySig
       /\ g.selected = NoSlots(NoBank) /\ g.nodes = NoSlots(NoNode) /\ g.commitment = h.commitment
       /\ g.sealed = {} /\ g.footers = {} /\ ~g.connected
  BY <1>3, <1>4 DEF HeadType
<1> HIDE DEF g
<1>12. \A s \in Slot : Valid(g, s) = NoBank
  BY <1>8, <1>9, <1>11 DEF Valid
<1>13. CommittedIsCanonical(g)
  BY <1>11 DEF BanksInv, CommittedIsCanonical
<1>14. MapsInv(g, 0) /\ BanksInv(g)
  BY <1>5, <1>6, <1>7, <1>9, <1>10, <1>11, <1>12, <1>13, EmptyIsGood
<1> QED BY <1>5, <1>10, <1>11, <1>14 DEF g

-----------------------------------------------------------------------------
(* The invariant. *)

\* The configuration never changes, so that the invariant of the next head can be
\* read in this state.
LEMMA SameScenario ==
  ASSUME scenario' = scenario, MapsInv(head', 0), BanksInv(head')
  PROVE  MapsInv(head, 0)' /\ BanksInv(head)'
<1>1. Minimum' = Minimum /\ Retain' = Retain
  BY DEF Minimum, Retain
<1>2. (MinRetained(head))' = MinRetained(head') /\ (BankFloor(head))' = BankFloor(head')
  BY <1>1 DEF MinRetained, BankFloor
<1>3. MapsInv(head, 0)'
  BY <1>1 DEF MapsInv, SignaturesAgree, BlocksPlaced, BlocksProjected, NodesBacked, Valid
<1>4. BanksInv(head)'
  BY <1>1, <1>2 DEF BanksInv, ShownIsSelected, SelectedIsShown, FootersShown, CommittedIsCanonical,
                    SealedSelected, SelectedIsWhole
<1> QED BY <1>3, <1>4

\* An event that keeps the head good keeps the invariant.
LEMMA KeptIsEnough ==
  ASSUME TypeOK, HeadInv, head.connected, Kept(head, head'), scenario' = scenario, frozen' \subseteq Bank,
         dropped' \subseteq Bank,
         \A d \in dropped' \ dropped : slotOf[d] >= BankFloor(head') => d \in head'.discarded
  PROVE  TypeOK' /\ HeadInv'
<1>1. MapsInv(head, 0)' /\ BanksInv(head)'
  BY SameScenario DEF Kept
<1>2. (BankFloor(head))' = BankFloor(head')
  BY DEF BankFloor, Retain, Minimum
<1>3. scenario \in Scenario /\ head \in HeadType /\ dropped \subseteq Bank
  BY DEF TypeOK
<1>4. BankFloor(head) \in Int /\ BankFloor(head') \in Int
  BY <1>3, BankFloorValue DEF Kept
<1>5. ASSUME NEW d \in dropped', slotOf[d] >= BankFloor(head')
      PROVE  d \in head'.discarded
  <2>1. CASE d \in dropped
    <3>1. slotOf[d] \in Int
      BY <1>3, <2>1, BankFacts
    <3>2. slotOf[d] >= BankFloor(head)
      BY <1>4, <1>5, <3>1 DEF Kept
    <3>3. d \in head.discarded
      BY <2>1, <3>2 DEF HeadInv, SessionInv
    <3> QED BY <1>5, <3>3 DEF Kept
  <2>2. CASE d \notin dropped
    BY <1>5, <2>2
  <2> QED BY <2>1, <2>2
<1>6. SessionInv'
  BY <1>2, <1>5 DEF SessionInv, Kept
<1>7. TypeOK'
  BY <1>3 DEF TypeOK, Kept
<1> QED BY <1>1, <1>6, <1>7 DEF HeadInv

\* The invariant holds of a fresh session.
LEMMA InvariantInitially == Init => TypeOK /\ HeadInv
<1> SUFFICES ASSUME Init PROVE TypeOK /\ HeadInv
  OBVIOUS
<1>1. scenario \in Scenario /\ head = Fresh /\ frozen = {} /\ dropped = {}
  BY DEF Init
<1>2. Fresh \in HeadType /\ MapsInv(Fresh, 0) /\ BanksInv(Fresh) /\ Fresh.connected
  BY <1>1, FreshIsGood
<1> QED BY <1>1, <1>2 DEF TypeOK, HeadInv, SessionInv

\* Every event, every request step and every reconnect keeps the invariant.
LEMMA InvariantStep == TypeOK /\ HeadInv /\ [Next]_vars => TypeOK' /\ HeadInv'
<1> SUFFICES ASSUME TypeOK, HeadInv, [Next]_vars PROVE TypeOK' /\ HeadInv'
  OBVIOUS
<1>t. scenario \in Scenario /\ head \in HeadType /\ frozen \subseteq Bank /\ dropped \subseteq Bank
  BY DEF TypeOK
<1>i. MapsInv(head, 0) /\ BanksInv(head)
  BY DEF HeadInv
<1>k. ASSUME head.connected, Kept(head, head'), scenario' = scenario, frozen' \subseteq Bank, dropped' = dropped
      PROVE  TypeOK' /\ HeadInv'
  BY <1>k, <1>t, KeptIsEnough
<1>1. ASSUME NEW b \in Bank, StageBankMetadata(b) PROVE TypeOK' /\ HeadInv'
  <2>1. Kept(head, head')
    BY <1>1, <1>i, <1>t, MetadataKeeps DEF StageBankMetadata
  <2> QED BY <1>1, <1>k, <1>t, <2>1 DEF StageBankMetadata
<1>2. ASSUME NEW b \in Bank, StageBankFooter(b) PROVE TypeOK' /\ HeadInv'
  <2>1. Kept(head, head')
    BY <1>2, <1>i, <1>t, FooterKeeps DEF StageBankFooter
  <2> QED BY <1>2, <1>k, <1>t, <2>1 DEF StageBankFooter
<1>3. ASSUME NEW b \in Bank, StageBankEntries(b) PROVE TypeOK' /\ HeadInv'
  <2>1. Kept(head, head')
    BY <1>3, <1>i, <1>t, EntriesKeep DEF StageBankEntries
  <2> QED BY <1>3, <1>k, <1>t, <2>1 DEF StageBankEntries
<1>4. ASSUME NEW b \in Bank, FreezeBank(b) PROVE TypeOK' /\ HeadInv'
  <2>1. CASE AcceptBank(head, b) /\ b \in head.metadata \cap head.entries
    <3>1. head' = RetainBanks(PublishBank([head EXCEPT !.sealed = @ \cup {b}], b))
      BY <1>4, <2>1 DEF FreezeBank
    <3>2. Kept(head, head')
      BY <1>i, <1>t, <2>1, <3>1, SealKeeps
    <3> QED BY <1>4, <1>k, <1>t, <3>2 DEF FreezeBank
  <2>2. CASE ~(AcceptBank(head, b) /\ b \in head.metadata \cap head.entries)
    <3>1. head' = head
      BY <1>4, <2>2 DEF FreezeBank
    <3>2. BankFloor(head) <= BankFloor(head)
      BY <1>t, BankFloorValue
    <3>3. Kept(head, head')
      BY <1>i, <1>t, <3>1, <3>2 DEF Kept
    <3> QED BY <1>4, <1>k, <1>t, <3>3 DEF FreezeBank
  <2> QED BY <2>1, <2>2
<1>5. ASSUME NEW b \in Bank, DiscardBank(b) PROVE TypeOK' /\ HeadInv'
  <2>1. /\ head' = DiscardedFrom(head, b) /\ head.connected /\ scenario' = scenario
        /\ frozen' = frozen /\ dropped' = dropped \cup {b}
    BY <1>5 DEF DiscardBank, DiscardedFrom
  <2>2. Kept(head, head') /\ (slotOf[b] >= BankFloor(head') => b \in head'.discarded)
    BY <1>i, <1>t, <2>1, DiscardKeeps
  <2> QED BY <1>t, <2>1, <2>2, KeptIsEnough
<1>6. ASSUME NEW b \in Bank, NEW c \in scenario.levels, CommitBank(b, c) PROVE TypeOK' /\ HeadInv'
  <2>1. c \in Level
    BY <1>t, HeadCacheAssumption DEF HeadCacheAssumption
  <2>2. /\ head' = Committed(head, b, c) /\ head.connected /\ scenario' = scenario
        /\ frozen' = frozen /\ dropped' = dropped /\ AcceptBank(head, b) /\ (c > 0 => b \in Canonical)
    BY <1>6 DEF CommitBank, Committed
  <2>3. Kept(head, head')
    BY <1>i, <1>t, <2>1, <2>2, CommittedKeeps
  <2> QED BY <1>k, <1>t, <2>2, <2>3
<1>7. CASE EndBankSession
  <2>1. head' = Ended(head) /\ scenario' = scenario /\ frozen' = frozen /\ dropped' = dropped
    BY <1>7 DEF EndBankSession, Ended
  <2>2. /\ head' \in HeadType /\ MapsInv(head', 0) /\ BanksInv(head') /\ ~head'.connected
        /\ \A s \in Slot : head'.slotBlock[s] = NoBank
    BY <1>i, <1>t, <2>1, EndedIsGood
  <2>3. MapsInv(head, 0)' /\ BanksInv(head)'
    BY <2>1, <2>2, SameScenario
  <2> QED BY <1>t, <2>1, <2>2, <2>3 DEF TypeOK, HeadInv, SessionInv
<1>8. CASE StartBankSession
  <2>1. head' = Fresh /\ scenario' = scenario /\ frozen' = {} /\ dropped' = {}
    BY <1>8 DEF StartBankSession
  <2>2. head' \in HeadType /\ MapsInv(head', 0) /\ BanksInv(head') /\ head'.connected
    BY <1>t, <2>1, FreshIsGood
  <2>3. MapsInv(head, 0)' /\ BanksInv(head)'
    BY <2>1, <2>2, SameScenario
  <2> QED BY <1>t, <2>1, <2>2, <2>3 DEF TypeOK, HeadInv, SessionInv
<1>9. ASSUME UNCHANGED <<scenario, head, frozen, dropped>> PROVE TypeOK' /\ HeadInv'
  <2>1. MapsInv(head, 0)' /\ BanksInv(head)'
    BY <1>9, <1>i, SameScenario
  <2>2. SessionInv'
    BY <1>9 DEF HeadInv, SessionInv, BankFloor, Retain, Minimum
  <2> QED BY <1>9, <1>t, <2>1, <2>2 DEF TypeOK, HeadInv
<1>10. ASSUME NEW r \in Request, NEW c \in scenario.levels, TakeChainFloor(r, c) PROVE TypeOK' /\ HeadInv'
  BY <1>9, <1>10 DEF TakeChainFloor
<1>11. ASSUME NEW r \in Request, ReadHeadRows(r) \/ TakeAddressFloor(r) \/ Respond(r) PROVE TypeOK' /\ HeadInv'
  BY <1>9, <1>11 DEF ReadHeadRows, TakeAddressFloor, Respond
<1>12. CASE UNCHANGED vars
  BY <1>9, <1>12 DEF vars
<1> QED BY <1>1, <1>2, <1>3, <1>4, <1>5, <1>6, <1>7, <1>8, <1>10, <1>11, <1>12 DEF Next

\* The head keeps its type, and the maps of head_cache/mod.rs, the bank state of banks.rs
\* and the proof of coverage.rs agree after every event.
THEOREM HeadInvariant == Spec => [](TypeOK /\ HeadInv)
BY InvariantInitially, InvariantStep, PTL DEF Spec

-----------------------------------------------------------------------------
(* What readers are served. *)

\* The signatures of a bank are as many as its transactions.
LEMMA SignaturesOfBank ==
  ASSUME NEW b \in Bank
  PROVE  IsFiniteSet(Range(txsOf[b])) /\ Cardinality(Range(txsOf[b])) = Len(txsOf[b])
<1> DEFINE q == txsOf[b]
           n == Len(txsOf[b])
<1>1. q \in Seq(Sig) /\ n \in Nat /\ DOMAIN q = 1..n /\ q \in [1..n -> Sig]
  BY BankFacts
<1>2. \A i, j \in 1..n : q[i] = q[j] => i = j
  BY <1>1, HeadCacheAssumption DEF HeadCacheAssumption, IsInjective
<1>3. /\ \A i \in 1..n : q[i] \in Range(q)
      /\ \A x \in Range(q) : \E i \in 1..n : x = q[i]
  BY RangeOfBank
<1> HIDE DEF q, n
<1>4. q \in [1..n -> Range(q)]
  BY <1>1, <1>3
<1>5. q \in Surjection(1..n, Range(q)) /\ q \in Injection(1..n, Range(q))
  BY <1>1, <1>2, <1>3, <1>4 DEF Surjection, Injection, IsInjective
<1>6. IsFiniteSet(1..n) /\ Cardinality(1..n) = n
  <2>1. 1 \in Int /\ n \in Int /\ n >= 0
    BY <1>1
  <2>2. IsFiniteSet(1..n) /\ Cardinality(1..n) = IF 1 > n THEN 0 ELSE n - 1 + 1
    BY <2>1, FS_Interval
  <2> QED BY <2>1, <2>2
<1>7. IsFiniteSet(Range(q)) /\ Cardinality(Range(q)) = Cardinality(1..n)
  BY <1>5, <1>6, FS_Surjection
<1> QED BY <1>6, <1>7 DEF q, n

\* The signatures of a slot are those of its block.
LEMMA SlotSignatures ==
  ASSUME NEW h \in HeadType, MapsInv(h, 0), NEW s \in Slot, h.slotBlock[s] # NoBank
  PROVE  h.sigsBySlot[s] \subseteq Range(txsOf[h.slotBlock[s]])
<1>1. SUFFICES ASSUME NEW x \in h.sigsBySlot[s] PROVE x \in Range(txsOf[h.slotBlock[s]])
  OBVIOUS
<1>2. x \in Sig
  BY DEF HeadType
<1>3. h.metaBySig[x] # NoBank /\ slotOf[h.metaBySig[x]] = s
  BY <1>1 DEF MapsInv, SignaturesAgree
<1> QED BY <1>2, <1>3 DEF MapsInv, SignaturesAgree

\* Every block served has all its transactions, and its footer.
LEMMA BlocksWholeFollows ==
  ASSUME TypeOK, HeadInv
  PROVE  BlocksServedWhole
<1>t. head \in HeadType /\ MapsInv(head, 0) /\ FootersShown(head)
  BY DEF TypeOK, HeadInv, BanksInv
<1>1. BlocksWhole
  <2>1. SUFFICES ASSUME NEW s \in Slot, NEW c \in Level, NEW a \in GetBlock(head, s, c)
                 PROVE  a.txs = Range(txsOf[a.bank])
    BY DEF BlocksWhole
  <2> DEFINE b == head.slotBlock[s]
             R == Range(txsOf[b])
  <2>2. /\ b # NoBank /\ Cardinality(head.sigsBySlot[s]) = Len(txsOf[b])
        /\ a.bank = b /\ a.txs = head.sigsBySlot[s]
    BY <2>1 DEF GetBlock
  <2>3. b \in Bank
    BY <1>t, <2>2 DEF HeadType
  <2>4. IsFiniteSet(R) /\ Cardinality(R) = Len(txsOf[b])
    BY <2>3, SignaturesOfBank
  <2>5. head.sigsBySlot[s] \in SUBSET R
    BY <1>t, <2>2, SlotSignatures
  <2> HIDE DEF b, R
  <2>6. R = head.sigsBySlot[s]
    BY <2>2, <2>4, <2>5, FS_Subset
  <2> QED BY <2>2, <2>6 DEF R
<1>2. FooterServed
  BY <1>t DEF FooterServed, FootersShown
<1> QED BY <1>1, <1>2 DEF BlocksServedWhole

\* Only selected banks project signatures.
LEMMA WinnersFollow ==
  ASSUME TypeOK, HeadInv
  PROVE  WinnersProjected
<1>t. head \in HeadType /\ MapsInv(head, 0) /\ BanksInv(head) /\ SessionInv /\ dropped \subseteq Bank
  BY DEF TypeOK, HeadInv
<1>d. \A d \in Bank : slotOf[d] \in Slot /\ d # NoBank
  BY BankFacts
<1>m. \A x \in Sig : head.metaBySig[x] # NoBank =>
        /\ head.metaBySig[x] \in Bank
        /\ head.slotBlock[slotOf[head.metaBySig[x]]] = head.metaBySig[x]
  BY <1>t DEF HeadType, MapsInv, SignaturesAgree
<1>1. OnlySelectedProjected
  BY <1>t, <1>d, <1>m DEF OnlySelectedProjected, BanksInv, ShownIsSelected
<1>2. DiscardedNotServed
  <2>1. SUFFICES ASSUME NEW b \in dropped, slotOf[b] >= BankFloor(head)
                 PROVE  head.slotBlock[slotOf[b]] # b /\ \A x \in Sig : head.metaBySig[x] # b
    BY DEF DiscardedNotServed
  <2>2. b \in Bank /\ b # NoBank /\ slotOf[b] \in Slot
    BY <1>t, <1>d
  <2>3. head.slotBlock[slotOf[b]] # b
    <3>1. CASE head.connected
      <4>1. b \in head.discarded
        BY <1>t, <2>1, <3>1 DEF SessionInv
      <4> QED BY <1>t, <2>1, <2>2, <4>1 DEF BanksInv, ShownIsSelected, SelectedIsShown
    <3>2. CASE ~head.connected
      BY <1>t, <2>2, <3>2 DEF SessionInv
    <3> QED BY <3>1, <3>2
  <2> QED BY <1>m, <2>2, <2>3
<1>3. MinimumHeld
  BY <1>t, <1>d, <1>m DEF MinimumHeld, MapsInv, BlocksPlaced
<1> QED BY <1>1, <1>2, <1>3 DEF WinnersProjected

\* A confirmed bank is served.
LEMMA ConfirmedFollows ==
  ASSUME TypeOK, HeadInv
  PROVE  ConfirmedServed
<1>t. head \in HeadType /\ MapsInv(head, 0) /\ BanksInv(head) /\ scenario \in Scenario
  BY DEF TypeOK, HeadInv
<1>1. SealedIsPublished
  BY <1>t DEF SealedIsPublished, BanksInv, SealedSelected
<1>2. ConfirmedBlockServed
  <2>1. SUFFICES ASSUME NEW s \in Slot, head.selected[s] # NoBank, head.commitment[head.selected[s]] > 0,
                        s >= MinRetained(head)
                 PROVE  GetBlock(head, s, 1) # {}
    BY DEF ConfirmedBlockServed
  <2> DEFINE b == head.selected[s]
  <2>2. b \in Bank /\ slotOf[b] = s /\ head.slotBlock[s] = b
    BY <1>t, <2>1 DEF HeadType, BanksInv, SelectedIsShown
  <2>3. head.slotCommitment[s] >= 1 /\ \A x \in Range(txsOf[b]) : head.metaBySig[x] = b
    BY <1>t, <2>1 DEF BanksInv, SelectedIsWhole
  <2>4. head.sigsBySlot[s] = Range(txsOf[b])
    <3>1. head.sigsBySlot[s] \subseteq Range(txsOf[b])
      BY <1>t, <2>1, <2>2, SlotSignatures
    <3>2. ASSUME NEW x \in Range(txsOf[b]) PROVE x \in head.sigsBySlot[s]
      <4>1. x \in Sig
        BY <2>2, RangeOfBank
      <4>2. head.metaBySig[x] = b
        BY <2>3
      <4> QED BY <1>t, <2>1, <2>2, <4>1, <4>2 DEF MapsInv, SignaturesAgree
    <3> QED BY <3>1, <3>2
  <2>5. Cardinality(head.sigsBySlot[s]) = Len(txsOf[b])
    BY <2>2, <2>4, SignaturesOfBank
  <2>6. \A x \in head.sigsBySlot[s] : head.metaBySig[x] # NoBank /\ slotOf[head.metaBySig[x]] = s
    BY <1>t DEF MapsInv, SignaturesAgree
  <2>7. Max({head.slotCommitment[s], 0}) >= 1
    <3>1. head.slotCommitment[s] \in Int
      BY <1>t DEF HeadType
    <3> QED BY <2>3, <3>1, MaxPair
  <2> QED BY <2>1, <2>2, <2>5, <2>6, <2>7 DEF GetBlock
<1> QED BY <1>1, <1>2 DEF ConfirmedServed

\* A link that the proof trusts is a bank of its slot that the maps show.
LEMMA LinkIsShown ==
  ASSUME NEW h \in HeadType, MapsInv(h, 0), NEW s, NEW c, LinkAt(h, s, c) # NoBank
  PROVE  LET l == LinkAt(h, s, c) IN
         /\ s \in Slot /\ l \in Bank /\ slotOf[l] = s /\ h.slotBlock[s] = l /\ h.nodes[s].link = l
         /\ h.nodes[s].present /\ ParentSlot(l) \in 0..MaxSlot /\ ParentSlot(l) < s
<1> DEFINE l == LinkAt(h, s, c)
<1>1. s \in Slot /\ h.nodes[s].present /\ Valid(h, s) = l /\ l = h.nodes[s].link
  BY DEF LinkAt, Valid
<1>2. h.nodes[s] \in NodeType
  BY <1>1, NodeTyped
<1>3. l \in Bank
  BY <1>1, <1>2 DEF NodeType
<1>4. h.slotBlock[s] = l /\ slotOf[l] = s
  BY <1>1 DEF MapsInv, NodesBacked, BlocksPlaced
<1> QED BY <1>1, <1>3, <1>4, BankFacts

\* The walk of chain: one bank and the walk from its parent's slot.
Walks(f, h, c) ==
  /\ \A s \in 0..MaxSlot : f[s] = IF LinkAt(h, s, c) = NoBank THEN {}
                                 ELSE {LinkAt(h, s, c)} \cup f[ParentSlot(LinkAt(h, s, c))]
  /\ \A tip : ChainFrom(h, tip, c) = IF \E b \in f[tip] : ParentConflicts(h, b) THEN {} ELSE f[tip]

\* The recursion of the walk is well founded: a trusted link leads to a lower slot.
LEMMA ChainUnfolds ==
  ASSUME NEW h \in HeadType, MapsInv(h, 0), NEW c
  PROVE  \E f : Walks(f, h, c)
<1> DEFINE l(s) == LinkAt(h, s, c)
           E(f, s) == IF l(s) = NoBank THEN {} ELSE {l(s)} \cup f[ParentSlot(l(s))]
           D(f, n) == f = [s \in 0..n |-> E(f, s)]
           G == {n \in Nat : n <= MaxSlot => \E f : D(f, n)}
<1>m. MaxSlot \in Nat
  BY HeadCacheAssumption DEF HeadCacheAssumption
<1>l. \A s : l(s) # NoBank => s \in Slot /\ ParentSlot(l(s)) \in 0..MaxSlot /\ ParentSlot(l(s)) < s
  BY LinkIsShown
<1>x. \A f, n : D(f, n) <=> f = [s \in 0..n |-> IF LinkAt(h, s, c) = NoBank THEN {}
                                  ELSE {LinkAt(h, s, c)} \cup f[ParentSlot(LinkAt(h, s, c))]]
  OBVIOUS
<1> HIDE DEF l
<1>1. 0 \in G
  <2>1. l(0) = NoBank
    BY <1>l DEF Slot
  <2>2. D([s \in 0..0 |-> {}], 0)
    BY <2>1
  <2> HIDE DEF D
  <2> QED BY <2>2
<1>2. ASSUME NEW n \in Nat, n \in G PROVE n + 1 \in G
  <2>1. SUFFICES ASSUME n + 1 <= MaxSlot PROVE \E f : D(f, n + 1)
    OBVIOUS
  <2>2. PICK f : D(f, n)
    BY <1>2, <1>m, <2>1
  <2> DEFINE g == [s \in 0..(n + 1) |-> IF s = n + 1 THEN E(f, n + 1) ELSE f[s]]
  <2>a. \A s \in 0..n : f[s] = E(f, s)
    BY <2>2
  <2>b. \A s \in 0..n : g[s] = f[s]
    OBVIOUS
  <2>c. g[n + 1] = E(f, n + 1)
    OBVIOUS
  <2>d. DOMAIN g = 0..(n + 1) /\ g = [s \in 0..(n + 1) |-> g[s]]
    OBVIOUS
  <2> HIDE DEF g
  <2>3. \A s \in 0..n : f[s] = E(f, s) /\ g[s] = f[s]
    BY <2>a, <2>b
  <2>4. \A s \in 0..(n + 1) : l(s) # NoBank => ParentSlot(l(s)) \in 0..n
    BY <1>l
  <2>5. \A s \in 0..(n + 1) : E(g, s) = E(f, s)
    BY <2>3, <2>4
  <2>6. \A s \in 0..(n + 1) : g[s] = E(g, s)
    <3> HIDE DEF E
    <3>1. \A s \in 0..(n + 1) : s \in 0..n \/ s = n + 1
      OBVIOUS
    <3> QED BY <2>3, <2>5, <2>c, <3>1
  <2>7. D(g, n + 1)
    <3> HIDE DEF E
    <3> QED BY <2>6, <2>d
  <2> HIDE DEF D, g
  <2> QED BY <2>7
<1>3. \E f : D(f, MaxSlot)
  <2>1. MaxSlot \in G
    <3> HIDE DEF G
    <3> QED BY <1>1, <1>2, <1>m, NatSetInduction
  <2> QED BY <2>1, <1>m
<1> DEFINE f == CHOOSE f : D(f, MaxSlot)
<1>4. D(f, MaxSlot)
  BY <1>3
<1>5. f = CHOOSE down : down = [s \in 0..MaxSlot |->
             IF LinkAt(h, s, c) = NoBank THEN {}
             ELSE {LinkAt(h, s, c)} \cup down[ParentSlot(LinkAt(h, s, c))]]
  BY DEF l
<1>6. \A tip : ChainFrom(h, tip, c) = IF \E b \in f[tip] : ParentConflicts(h, b) THEN {} ELSE f[tip]
  BY DEF ChainFrom, l
<1> HIDE DEF f
<1>7. \A s \in 0..MaxSlot : f[s] = E(f, s)
  BY <1>4
<1>8. Walks(f, h, c)
  BY <1>6, <1>7 DEF l, Walks
<1> QED BY <1>8

\* The banks of the walk from slot s: each has its own slot, and all below one are in the
\* walk from its parent's slot.
LEMMA WalkIsDownward ==
  ASSUME NEW h \in HeadType, MapsInv(h, 0), NEW c, NEW f, Walks(f, h, c),
         NEW tip \in 0..MaxSlot, NEW b \in f[tip]
  PROVE  /\ b \in Bank /\ slotOf[b] <= tip /\ h.slotBlock[slotOf[b]] = b
         /\ f[ParentSlot(b)] \subseteq f[tip]
         /\ \A d \in f[tip] : slotOf[d] < slotOf[b] => d \in f[ParentSlot(b)]
<1> DEFINE Good(s, e) ==
             /\ e \in Bank /\ slotOf[e] <= s /\ h.slotBlock[slotOf[e]] = e
             /\ f[ParentSlot(e)] \subseteq f[s]
             /\ \A d \in f[s] : slotOf[d] < slotOf[e] => d \in f[ParentSlot(e)]
           G == {n \in Nat : \A s \in 0..MaxSlot : s <= n => \A e \in f[s] : Good(s, e)}
<1>m. MaxSlot \in Nat
  BY HeadCacheAssumption DEF HeadCacheAssumption
<1>d. \A d \in Bank : slotOf[d] \in 1..MaxSlot /\ slotOf[d] \in Int /\ ParentSlot(d) \in Int /\ ParentSlot(d) < slotOf[d]
  BY BankFacts
<1>0. ASSUME NEW s \in 0..MaxSlot, LinkAt(h, s, c) # NoBank
      PROVE  LET l == LinkAt(h, s, c) IN
             /\ s \in Slot /\ l \in Bank /\ slotOf[l] = s /\ h.slotBlock[s] = l
             /\ ParentSlot(l) \in 0..MaxSlot /\ ParentSlot(l) < s
             /\ f[s] = {l} \cup f[ParentSlot(l)]
  <2> DEFINE l == LinkAt(h, s, c)
  <2>1. f[s] = {l} \cup f[ParentSlot(l)]
    BY <1>0 DEF Walks
  <2>2. /\ s \in Slot /\ l \in Bank /\ slotOf[l] = s /\ h.slotBlock[s] = l
        /\ ParentSlot(l) \in 0..MaxSlot /\ ParentSlot(l) < s
    BY <1>0, LinkIsShown
  <2> QED BY <2>1, <2>2
<1>1. 0 \in G
  <2>1. ASSUME NEW s \in 0..MaxSlot, s <= 0 PROVE f[s] = {}
    <3>1. s \notin Slot
      BY <2>1 DEF Slot
    <3>2. LinkAt(h, s, c) = NoBank
      BY <1>0, <3>1
    <3> QED BY <3>2 DEF Walks
  <2> QED BY <2>1
<1>2. ASSUME NEW n \in Nat, n \in G PROVE n + 1 \in G
  <2>1. SUFFICES ASSUME NEW s \in 0..MaxSlot, s <= n + 1, NEW e \in f[s] PROVE Good(s, e)
    OBVIOUS
  <2> DEFINE l == LinkAt(h, s, c)
             p == ParentSlot(l)
  <2>2. l # NoBank
    BY <2>1 DEF Walks
  <2>3. /\ s \in Slot /\ l \in Bank /\ slotOf[l] = s /\ h.slotBlock[s] = l
        /\ p \in 0..MaxSlot /\ p < s /\ f[s] = {l} \cup f[p]
    BY <1>0, <2>2
  <2> HIDE DEF l
  <2>4. p <= n
    BY <2>1, <2>3
  <2>5. \A d \in f[p] : Good(p, d)
    BY <1>2, <2>3, <2>4
  <2>6. CASE e = l
    <3>1. \A d \in f[s] : slotOf[d] < slotOf[l] => d \in f[p]
      BY <2>3, <1>d
    <3> QED BY <2>3, <2>6, <3>1
  <2>7. CASE e \in f[p]
    <3>1. Good(p, e)
      BY <2>5, <2>7
    <3>2. slotOf[e] <= s
      BY <1>d, <2>3, <3>1
    <3>3. ASSUME NEW d \in f[s], slotOf[d] < slotOf[e] PROVE d \in f[ParentSlot(e)]
      <4>1. d # l
        BY <1>d, <2>3, <3>1, <3>3
      <4> QED BY <2>3, <3>1, <3>3, <4>1
    <3> QED BY <2>3, <3>1, <3>2, <3>3
  <2> QED BY <2>3, <2>6, <2>7
<1>3. tip \in G /\ tip \in Nat
  <2>1. tip \in Nat
    BY <1>m
  <2> HIDE DEF G
  <2> QED BY <1>1, <1>2, <2>1, NatSetInduction
<1>4. Good(tip, b)
  BY <1>3
<1> QED BY <1>4

\* A trusted chain is a path of banks that the maps show.
LEMMA ChainFollows ==
  ASSUME TypeOK, HeadInv
  PROVE  ChainIsPath
<1>t. head \in HeadType /\ MapsInv(head, 0)
  BY DEF TypeOK, HeadInv
<1>1. SUFFICES ASSUME NEW c \in Level, NEW b \in TrustedChain(head, c),
                      slotOf[b] # Min({slotOf[d] : d \in TrustedChain(head, c)})
                        \/ head.slotBlock[slotOf[b]] # b
               PROVE  head.slotBlock[slotOf[b]] = b /\ parentOf[b] \in TrustedChain(head, c)
  BY DEF ChainIsPath
<1> DEFINE C   == TrustedChain(head, c)
           tip == head.tips[c]
<1>2. PICK f : Walks(f, head, c)
  BY <1>t, ChainUnfolds
<1>3. tip \in 0..MaxSlot
  BY <1>t DEF HeadType
<1>4. C = f[tip] /\ ~ParentConflicts(head, b)
  <2>1. C = ChainFrom(head, tip, c)
    BY <1>1 DEF TrustedChain
  <2> QED BY <1>1, <1>2, <2>1 DEF Walks
<1> HIDE DEF C
<1>5. b \in C /\ b \in f[tip]
  BY <1>1, <1>4 DEF C
<1>6. \A e \in f[tip] :
         /\ e \in Bank /\ slotOf[e] <= tip /\ head.slotBlock[slotOf[e]] = e
         /\ f[ParentSlot(e)] \subseteq f[tip]
         /\ \A d \in f[tip] : slotOf[d] < slotOf[e] => d \in f[ParentSlot(e)]
  <2> HIDE DEF tip
  <2> QED BY <1>t, <1>2, <1>3, WalkIsDownward
<1>d. \A d \in Bank : slotOf[d] \in Int /\ ParentSlot(d) \in 0..MaxSlot
  BY BankFacts
<1>7. PICK d \in f[tip] : slotOf[d] < slotOf[b]
  <2>1. SUFFICES ASSUME \A d \in f[tip] : ~(slotOf[d] < slotOf[b]) PROVE FALSE
    OBVIOUS
  <2> DEFINE T == {slotOf[d] : d \in C}
  <2>2. slotOf[b] \in T /\ \A y \in T : slotOf[b] <= y /\ y \in Int
    BY <1>4, <1>5, <1>6, <1>d, <2>1
  <2>3. slotOf[b] # Min(T)
    BY <1>1, <1>5, <1>6 DEF C
  <2> HIDE DEF T
  <2>4. \A x \in T : (\A y \in T : x <= y) => x = slotOf[b]
    BY <2>2
  <2> QED BY <2>2, <2>3, <2>4 DEF Min
<1>8. d \in f[ParentSlot(b)]
  BY <1>5, <1>6, <1>7
<1> DEFINE p == ParentSlot(b)
           l == LinkAt(head, p, c)
<1>9. p \in 0..MaxSlot
  BY <1>5, <1>6, <1>d
<1>10. l # NoBank /\ l \in f[p]
  BY <1>2, <1>8, <1>9 DEF Walks
<1>11. p \in Slot /\ head.nodes[p].present /\ head.nodes[p].link = l
  BY <1>t, <1>10, LinkIsShown
<1>12. l = parentOf[b]
  BY <1>4, <1>10, <1>11 DEF ParentConflicts
<1>13. parentOf[b] \in C
  BY <1>4, <1>5, <1>6, <1>10, <1>12
<1> QED BY <1>5, <1>6, <1>13 DEF C

-----------------------------------------------------------------------------
\* BlocksServedWhole: get_block answers with all transactions of one bank and no others, and
\* with the footer if it arrived, although freeze_bank, publish_bank and the eviction write
\* the maps in any order of events.
THEOREM BlocksKeptWhole == Spec => []BlocksServedWhole
BY HeadInvariant, BlocksWholeFollows, PTL

\* WinnersProjected: publish_bank, commit_bank and discard_bank leave no signature of a bank
\* that lost its slot, was discarded or is below the session's minimum commitment.
THEOREM WinnersKept == Spec => []WinnersProjected
BY HeadInvariant, WinnersFollow, PTL

\* ConfirmedServed: a bank that is sealed and confirmed is selected, whichever came first, and
\* get_block serves it while it is retained, even if an abandoned slot had its signatures.
THEOREM ConfirmedKept == Spec => []ConfirmedServed
BY HeadInvariant, ConfirmedFollows, PTL

\* ChainIsPath: the slots that trusted_chain proves are a path of banks in the cluster's tree,
\* and the maps hold each of them.
THEOREM ChainKept == Spec => []ChainIsPath
BY HeadInvariant, ChainFollows, PTL
=============================================================================
