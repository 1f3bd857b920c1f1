----------------------------- MODULE HeadCache -----------------------------
(***************************************************************************)
(* The head cache of superbank-rpc: the newest slots of one gRPC           *)
(* subscription, bank by bank (head_cache/banks.rs), projected into maps   *)
(* by slot, signature and address (head_cache/mod.rs) and into a proof of  *)
(* which slots the maps hold (head_cache/coverage.rs).                     *)
(*                                                                         *)
(* Every writer holds the bank lock for the whole of its update, so that   *)
(* an update is one step; an address request takes the locks three times.  *)
(* The cluster is external: a tree of banks, one chain of which is         *)
(* confirmed.  A bank stands for its hash, its node-local id and its       *)
(* content.  One address is touched by every transaction.  A tip is always *)
(* fresh: TIP_MAX_AGE can only withhold a proof.                           *)
(***************************************************************************)
EXTENDS Integers, Sequences, FiniteSets, FiniteSetsExt, SequencesExt

CONSTANTS
  Bank,           \* the banks of the cluster
  slotOf,         \* [Bank -> 1..MaxSlot]
  parentOf,       \* [Bank -> Bank \cup {NoBank}], NoBank for a bank before the tree
  txsOf,          \* [Bank -> Seq(Sig)], the signatures of a bank in order
  Canonical,      \* the banks that the cluster confirms, a chain
  NoBank,
  Sig,
  MaxSlot,
  Pending,        \* PENDING_COMMITMENT_SLOTS
  Scenario,       \* configurations and disturbances, see below
  Request         \* the address requests

Slot == 1..MaxSlot

Level == 0..2     \* Processed, Confirmed, Finalized

Chain(C) == \A b \in C : parentOf[b] # NoBank => parentOf[b] \in C

\* Lost events, a status before its bank, footers, discards, a broken subscription.
Fault == {"incomplete", "early", "footer", "discard", "reconnect"}

ASSUME HeadCacheAssumption ==
  /\ slotOf \in [Bank -> Slot] /\ txsOf \in [Bank -> Seq(Sig)] /\ Canonical \subseteq Bank
  /\ \A b \in Bank : IsInjective(txsOf[b])
  /\ \A b \in Bank : parentOf[b] # NoBank => parentOf[b] \in Bank /\ slotOf[parentOf[b]] < slotOf[b]
  /\ Chain(Canonical) /\ \A b, c \in Canonical : b # c => slotOf[b] # slotOf[c]
  /\ \A b, c \in Canonical : b # c => Range(txsOf[b]) \cap Range(txsOf[c]) = {}
  /\ NoBank \notin Bank
  /\ MaxSlot \in Nat \ {0} /\ Pending \in Nat
  /\ \A w \in Scenario : /\ {w.retain, w.perAddress} \subseteq Nat \ {0} /\ w.minimum \in Level
                         /\ w.faults \subseteq Fault /\ w.levels \subseteq Level

VARIABLES
  scenario,       \* chosen once: retain_slots, max_per_address, the minimum commitment
                  \* of the sessions, the statuses it receives, the faults that
                  \* happen and whether addresses are requested
  head,           \* BankState, the maps and HeadCoverage: all under the bank lock
  frozen,         \* the banks the block machine has emitted in this session
  dropped,        \* the banks it has discarded in this session
  request         \* the address requests

vars == <<scenario, head, frozen, dropped, request>>

Retain == scenario.retain

PerAddress == scenario.perAddress

Minimum == scenario.minimum

Faults == scenario.faults

ParentSlot(b) == IF parentOf[b] = NoBank THEN slotOf[b] - 1 ELSE slotOf[parentOf[b]]

NoNode == [present |-> FALSE, link |-> NoBank, commitment |-> -1, invalid |-> FALSE]

NewNode == [NoNode EXCEPT !.present = TRUE]

NoSlots(value) == [s \in Slot |-> value]

\* A session that has received nothing.
Fresh ==
  [connected |-> TRUE, highest |-> 0, latest |-> 0,
   banks |-> {}, metadata |-> {}, footers |-> {}, entries |-> {}, sealed |-> {}, observed |-> {},
   commitment |-> [b \in Bank |-> 0],
   selected |-> NoSlots(NoBank), canonical |-> NoSlots(NoBank), discarded |-> {},
   slotCommitment |-> NoSlots(-1), slotBlock |-> NoSlots(NoBank), slotFooter |-> {},
   metaBySig |-> [x \in Sig |-> NoBank], sigsBySlot |-> NoSlots({}),
   sigsByAddress |-> {}, truncated |-> 0,
   nodes |-> NoSlots(NoNode), tips |-> [c \in Level |-> 0], proofHighest |-> 0]

-----------------------------------------------------------------------------
(***************************************************************************)
(* HeadCoverage.                                                           *)
(***************************************************************************)
WithNode(h, s, node) == [h EXCEPT !.nodes[s] = node]

Node(h, s) == IF h.nodes[s].present THEN h.nodes[s] ELSE NewNode

InvalidateNode(h, s) == WithNode(h, s, [Node(h, s) EXCEPT !.invalid = TRUE])

\* invalidate_branch: the slots whose links lead by hash to the bank of slot s.
Branch(h, s) ==
  LET old == h.nodes[s].link
      in[t \in s..MaxSlot] ==
        \/ t = s
        \/ LET link == h.nodes[t].link IN
           /\ link # NoBank /\ ParentSlot(link) >= s
           /\ in[ParentSlot(link)]
           /\ IF ParentSlot(link) = s THEN old = NoBank \/ old = parentOf[link]
                                      ELSE h.nodes[ParentSlot(link)].link = parentOf[link]
  IN  {t \in s..MaxSlot : in[t]}

InvalidateBranch(h, s) ==
  LET branch == Branch(h, s)
  IN  [h EXCEPT !.nodes = [t \in Slot |-> IF t \in branch
                                          THEN [Node(h, t) EXCEPT !.invalid = TRUE] ELSE @[t]]]

SelectBank(h, b) ==
  LET s  == slotOf[b]
      h1 == IF h.nodes[s].link \notin {NoBank, b} THEN InvalidateBranch(h, s) ELSE h
  IN  WithNode(h1, s, [NewNode EXCEPT !.link = b])

ValidateParent(h, s, parent) ==
  LET link == h.nodes[s].link
  IN  IF link # NoBank /\ parent # ParentSlot(link) THEN InvalidateBranch(h, s) ELSE h

Observe(h, s, c) ==
  [h EXCEPT !.tips = [l \in Level |-> IF l <= c /\ s > @[l] THEN s ELSE @[l]]]

PublishNode(h, s, c) ==
  WithNode(h, s, [Node(h, s) EXCEPT !.commitment = IF c >= @ THEN c ELSE @])

RetainNodes(h, s) ==
  LET highest == Max({h.proofHighest, s})
  IN  [h EXCEPT !.proofHighest = highest,
                !.nodes = [t \in Slot |-> IF t >= highest - (Retain - 1) THEN @[t] ELSE NoNode]]

\* The link of a slot at a commitment.
LinkAt(h, s, c) ==
  IF s \in Slot /\ h.nodes[s].present /\ ~h.nodes[s].invalid /\ h.nodes[s].commitment >= c
  THEN h.nodes[s].link ELSE NoBank

\* Mutant: the parent is compared by slot only.
ParentConflictsBySlot(h, b) ==
  LET s == ParentSlot(b) IN s \in Slot /\ h.nodes[s].present /\ h.nodes[s].invalid

ParentConflicts(h, b) ==
  LET s == ParentSlot(b) IN
  /\ s \in Slot /\ h.nodes[s].present
  /\ h.nodes[s].invalid \/ h.nodes[s].link \notin {NoBank, parentOf[b]}

\* chain: the banks from the tip down, none if a parent conflicts.
ChainFrom(h, tip, c) ==
  LET down[s \in 0..MaxSlot] ==
        IF LinkAt(h, s, c) = NoBank THEN {}
        ELSE {LinkAt(h, s, c)} \cup down[ParentSlot(LinkAt(h, s, c))]
      chain == down[tip]
  IN  IF \E b \in chain : ParentConflicts(h, b) THEN {} ELSE chain

\* trusted_chain: a verified parent edge, hence two banks.
TrustedChain(h, c) ==
  LET chain == ChainFrom(h, h.tips[c], c)
  IN  IF h.connected /\ Cardinality(chain) >= 2 THEN chain ELSE {}

-----------------------------------------------------------------------------
(***************************************************************************)
(* The maps.                                                               *)
(***************************************************************************)
MinRetained(h) == Max({0, h.latest - (Retain - 1)})

RemoveSlotInner(h, s) ==
  LET h1 == RetainNodes(InvalidateNode(h, s), h.latest)
  IN  [h1 EXCEPT !.slotCommitment[s] = -1,
                 !.slotBlock[s] = NoBank, !.slotFooter = @ \ {s},
                 !.sigsBySlot[s] = {},
                 !.metaBySig = [x \in Sig |->
                    IF x \in h.sigsBySlot[s] /\ @[x] # NoBank /\ slotOf[@[x]] = s THEN NoBank ELSE @[x]],
                 !.sigsByAddress = {k \in @ : k.slot # s}]

\* The slots of a set, one after the other.
RemoveSlots(h, slots) ==
  LET upTo[s \in 0..MaxSlot] ==
        IF s = 0 THEN h
        ELSE IF s \in slots THEN RemoveSlotInner(upTo[s - 1], s) ELSE upTo[s - 1]
  IN  upTo[MaxSlot]

RemoveSlot(h, s) == RemoveSlotInner(InvalidateBranch(h, s), s)

Projected(h) == {s \in Slot : h.slotCommitment[s] # -1}

EvictOldSlots(h) ==
  LET old == {s \in Projected(h) : s < MinRetained(h)}
      h1  == RemoveSlots(h, old)
  IN  IF old = {} THEN h
      ELSE [h1 EXCEPT !.truncated = IF @ >= MinRetained(h) THEN @ ELSE 0]

Advance(h, s) == IF s > h.latest THEN EvictOldSlots([h EXCEPT !.latest = s]) ELSE h

NoteSlotCommitment(h, s, c) ==
  LET h1 == [h EXCEPT !.slotCommitment[s] = IF c >= @ THEN c ELSE @]
  IN  Advance(h1, s)

\* Mutant: a signature is never reclaimed.
FirstProjectionStays(h, old, b) == TRUE

\* projection_wins: the signature stays with the bank that has it.
KeepsProjection(h, old, b) ==
  slotOf[old] = slotOf[b] \/ h.commitment[b] = 0 \/ h.commitment[old] # 0

OlderKey(k, l) == k.slot < l.slot \/ (k.slot = l.slot /\ k.idx < l.idx)

\* Mutant: the cap is applied before the insertion.
IndexAddressThenTrim(h, key, min) ==
  LET keys == {k \in h.sigsByAddress : k.slot >= min}
      kept == {k \in keys : Cardinality({l \in keys : OlderKey(k, l)}) < PerAddress}
  IN  [h EXCEPT !.sigsByAddress = kept \cup {key}, !.truncated = Max({@} \cup {k.slot : k \in keys \ kept})]

\* index_address with the cap: the oldest keys go.
IndexAddress(h, key, min) ==
  LET keys == {k \in h.sigsByAddress : k.slot >= min} \cup {key}
      kept == {k \in keys : Cardinality({l \in keys : OlderKey(k, l)}) < PerAddress}
      lost == {k.slot : k \in keys \ kept}
  IN  [h EXCEPT !.sigsByAddress = kept, !.truncated = Max({@} \cup lost)]

\* ingest_bank_transaction, for the i-th transaction of b.
IngestTransaction(h, b, i) ==
  LET s   == slotOf[b]
      x   == txsOf[b][i]
      old == h.metaBySig[x]
      min == Max({0, Max({h.latest, s}) - (Retain - 1)})
      h1  == IF old = NoBank THEN h
             ELSE [h EXCEPT !.sigsBySlot[slotOf[old]] = @ \ {x},
                            !.sigsByAddress = {k \in @ : k.sig # x \/ k.slot # slotOf[old]}]
      h2  == [h1 EXCEPT !.metaBySig[x] = b, !.sigsBySlot[s] = @ \cup {x}]
  IN  IF s < min \/ (old # NoBank /\ KeepsProjection(h, old, b)) THEN h
      ELSE Advance(IndexAddress(h2, [sig |-> x, slot |-> s, idx |-> i], min), s)

\* The transactions of a bank, one after the other.
IngestBank(h, b) ==
  LET upTo[i \in 0..Len(txsOf[b])] ==
        IF i = 0 THEN h ELSE IngestTransaction(upTo[i - 1], b, i)
  IN  upTo[Len(txsOf[b])]

-----------------------------------------------------------------------------
(***************************************************************************)
(* Banks.                                                                  *)
(***************************************************************************)
BankFloor(h) ==
  Max({h.highest, h.latest}) - (Retain - 1 + (IF Minimum > 0 THEN Pending ELSE 0))

AcceptBank(h, b) ==
  /\ slotOf[b] >= BankFloor(h) /\ b \notin h.discarded
  /\ h.canonical[slotOf[b]] \in {NoBank, b}

Forget(h, gone) ==
  [h EXCEPT !.banks = @ \ gone, !.metadata = @ \ gone, !.footers = @ \ gone,
            !.entries = @ \ gone, !.sealed = @ \ gone, !.observed = @ \ gone]

RetainBanks(h) ==
  LET old == {b \in Bank : slotOf[b] < BankFloor(h)}
      h1  == Forget(h, old)
  IN  [h1 EXCEPT !.discarded = @ \ old,
                 !.selected = [s \in Slot |-> IF s >= BankFloor(h) THEN @[s] ELSE NoBank],
                 !.canonical = [s \in Slot |-> IF s >= BankFloor(h) THEN @[s] ELSE NoBank]]

\* Mutant: a bank is published as soon as it is sealed.
PublishAtOnce(h, b) ==
  LET s  == slotOf[b]
      c  == h.commitment[b]
      h1 == NoteSlotCommitment(IngestBank([h EXCEPT !.slotBlock[s] = b], b), s, c)
  IN  IF b \notin h.sealed \/ h.selected[s] \notin {NoBank, b} THEN h
      ELSE PublishNode(SelectBank([h1 EXCEPT !.selected[s] = b], b), s, c)

\* A current projection is repaired, another one replaced if b is confirmed.
PublishBank(h, b) ==
  LET s       == slotOf[b]
      c       == h.commitment[b]
      current == h.selected[s]
      h1      == IF current = NoBank THEN h ELSE RemoveSlotInner(h, s)
      h2      == [h1 EXCEPT !.slotBlock[s] = b,
                            !.slotFooter = IF b \in h.footers THEN @ \cup {s} ELSE @ \ {s}]
      h3      == NoteSlotCommitment(IngestBank(h2, b), s, c)
      h4      == SelectBank([h3 EXCEPT !.selected[s] = b], b)
      h5      == PublishNode(h4, s, c)
      h6      == IF b \in h.observed THEN Observe(h5, s, c) ELSE h5
  IN  CASE b \notin h.sealed \/ c < Minimum      -> h
        [] current \notin {NoBank, b} /\ c = 0   -> h
        [] current = b                           -> NoteSlotCommitment(IngestBank(h, b), s, c)
        [] OTHER                                 -> h6

-----------------------------------------------------------------------------
(***************************************************************************)
(* What the subscription delivers.  The block machine emits a commitment   *)
(* update of a bank after the bank itself, unless "early" says otherwise,  *)
(* and discards only banks the cluster abandons.                           *)
(***************************************************************************)
StageBankMetadata(b) ==
  LET h == [head EXCEPT !.highest = Max({@, slotOf[b]}), !.banks = @ \cup {b},
                        !.metadata = @ \cup {b}]
  IN  /\ head.connected /\ AcceptBank(head, b)
      /\ head' = RetainBanks(h)
      /\ UNCHANGED <<scenario, frozen, dropped, request>>

\* Mutant: a late footer is staged only.
StageFooterOnly(b) ==
  /\ "footer" \in Faults
  /\ head.connected /\ AcceptBank(head, b) /\ b \notin head.footers
  /\ head' = RetainBanks([head EXCEPT !.banks = @ \cup {b}, !.footers = @ \cup {b}])
  /\ UNCHANGED <<scenario, frozen, dropped, request>>

\* The first footer wins; it reaches the staged and the published metadata.
StageBankFooter(b) ==
  LET h == [head EXCEPT !.banks = @ \cup {b}, !.footers = @ \cup {b},
                        !.slotFooter = IF head.selected[slotOf[b]] = b /\ head.slotBlock[slotOf[b]] # NoBank
                                       THEN @ \cup {slotOf[b]} ELSE @]
  IN  /\ "footer" \in Faults
      /\ head.connected /\ AcceptBank(head, b) /\ b \notin head.footers
      /\ head' = RetainBanks(h)
      /\ UNCHANGED <<scenario, frozen, dropped, request>>

\* All entries of the bank, at once; they count only before it is sealed.
StageBankEntries(b) ==
  /\ head.connected /\ AcceptBank(head, b) /\ b \notin head.sealed \cup head.entries
  /\ head' = [head EXCEPT !.banks = @ \cup {b}, !.entries = @ \cup {b}]
  /\ UNCHANGED <<scenario, frozen, dropped, request>>

\* Mutant: only a commitment update publishes.
FreezeWithoutPublishing(b) ==
  /\ head.connected /\ b \notin frozen
  /\ b \in head.entries \/ "incomplete" \in Faults
  /\ frozen' = frozen \cup {b}
  /\ head' = IF AcceptBank(head, b) /\ b \in head.metadata \cap head.entries
             THEN RetainBanks([head EXCEPT !.sealed = @ \cup {b}]) ELSE head
  /\ UNCHANGED <<scenario, dropped, request>>

\* complete_bank: the counts match unless an event of the bank was lost.
FreezeBank(b) ==
  /\ head.connected /\ b \notin frozen
  /\ b \in head.entries \/ "incomplete" \in Faults
  /\ frozen' = frozen \cup {b}
  /\ head' = IF AcceptBank(head, b) /\ b \in head.metadata \cap head.entries
             THEN RetainBanks(PublishBank([head EXCEPT !.sealed = @ \cup {b}], b))
             ELSE head
  /\ UNCHANGED <<scenario, dropped, request>>

\* Mutant: the losers go, their projection stays.
ElectKeepingRows(h, b) ==
  LET losers == {o \in h.banks \ {b} : slotOf[o] = slotOf[b]}
  IN  [Forget(h, losers) EXCEPT !.selected[slotOf[b]] = IF @ = b THEN @ ELSE NoBank,
                                !.canonical[slotOf[b]] = b, !.discarded = @ \cup losers]

\* The other banks of a slot lose once one is confirmed.
Elect(h, b) ==
  LET s      == slotOf[b]
      losers == {o \in h.banks \ {b} : slotOf[o] = s}
      h1     == IF h.selected[s] \notin {NoBank, b}
                THEN RemoveSlotInner([h EXCEPT !.selected[s] = NoBank], s) ELSE h
      h2     == Forget(h1, losers)
  IN  [h2 EXCEPT !.canonical[s] = b, !.discarded = @ \cup losers]

CommitBank(b, c) ==
  LET s  == slotOf[b]
      h1 == IF c > 0 THEN Elect(head, b) ELSE head
      h2 == [h1 EXCEPT !.highest = Max({@, s}), !.banks = @ \cup {b},
                       !.observed = @ \cup {b}, !.commitment[b] = Max({@, c})]
      h3 == Observe(PublishBank(h2, b), s, c)
      h4 == IF h3.selected[s] = b
            THEN PublishNode(ValidateParent(h3, s, ParentSlot(b)), s, c) ELSE h3
  IN  /\ b \in frozen \/ "early" \in Faults
      /\ c > 0 => b \in Canonical
      /\ head.connected /\ AcceptBank(head, b)
      /\ head' = RetainBanks(RetainNodes(h4, s))
      /\ UNCHANGED <<scenario, frozen, dropped, request>>

\* Mutant: the projection of a discarded bank stays.
DiscardKeepingRows(b) ==
  /\ "discard" \in Faults /\ b \notin Canonical
  /\ head.connected
  /\ head' = RetainBanks(Forget([head EXCEPT !.discarded = @ \cup {b},
                                !.selected[slotOf[b]] = IF @ = b THEN NoBank ELSE @], {b}))
  /\ dropped' = dropped \cup {b}
  /\ UNCHANGED <<scenario, frozen, request>>

\* A fork, a dead block, a discarded bank or a cleared parent.
DiscardBank(b) ==
  LET s  == slotOf[b]
      h1 == Forget([head EXCEPT !.discarded = @ \cup {b}], {b})
      h2 == IF head.selected[s] = b
            THEN RemoveSlot([h1 EXCEPT !.selected[s] = NoBank], s) ELSE h1
  IN  /\ "discard" \in Faults /\ b \notin Canonical
      /\ head.connected
      /\ head' = RetainBanks(h2)
      /\ dropped' = dropped \cup {b}
      /\ UNCHANGED <<scenario, frozen, request>>

EndBankSession ==
  LET h == RemoveSlots(head, Projected(head))
  IN  /\ "reconnect" \in Faults /\ head.connected
      /\ head' = [h EXCEPT !.connected = FALSE, !.banks = {}, !.metadata = {}, !.footers = {},
                           !.entries = {}, !.sealed = {}, !.observed = {},
                           !.selected = NoSlots(NoBank), !.canonical = NoSlots(NoBank),
                           !.discarded = {}, !.latest = 0,
                           !.nodes = NoSlots(NoNode), !.tips = [c \in Level |-> 0],
                           !.proofHighest = 0]
      /\ UNCHANGED <<scenario, frozen, dropped, request>>

\* The maps are empty already, but for the truncation record.
StartBankSession ==
  /\ ~head.connected
  /\ head' = Fresh
  /\ frozen' = {} /\ dropped' = {}
  /\ UNCHANGED <<scenario, request>>

-----------------------------------------------------------------------------
(***************************************************************************)
(* Reads under one lock.                                                   *)
(***************************************************************************)
\* Mutant: the rows are not counted.
GetBlockUncounted(h, s, c) ==
  LET b == h.slotBlock[s] IN
  IF Max({h.slotCommitment[s], 0}) >= c /\ b # NoBank
  THEN {[bank |-> b, txs |-> h.sigsBySlot[s]]} ELSE {}

\* get_block with its transactions; {} if the cache does not answer.
GetBlock(h, s, c) ==
  LET b == h.slotBlock[s] IN
  IF /\ Max({h.slotCommitment[s], 0}) >= c /\ b # NoBank
     /\ Cardinality(h.sigsBySlot[s]) = Len(txsOf[b])
     /\ \A x \in h.sigsBySlot[s] : h.metaBySig[x] # NoBank /\ slotOf[h.metaBySig[x]] = s
  THEN {[bank |-> b, txs |-> h.sigsBySlot[s]]} ELSE {}

SignaturesForAddress(h, c) ==
  {k.sig : k \in {l \in h.sigsByAddress :
                    Max({h.slotCommitment[l.slot], 0}) >= c /\ h.metaBySig[l.sig] # NoBank}}

ChainFloor(h, c) ==
  LET chain == TrustedChain(h, c)
  IN  IF chain = {} THEN 0 ELSE Min({slotOf[b] : b \in chain})

(***************************************************************************)
(* getSignaturesForAddress takes the chain floor, then the rows, then the  *)
(* floor above which it holds the rows to be complete.                     *)
(***************************************************************************)
NoRequest == [pc |-> "idle", commitment |-> 0, floor |-> 0, tip |-> 0, rows |-> {}]

TakeChainFloor(r, c) ==
  /\ scenario.requests /\ request[r].pc = "idle" /\ c > 0 /\ ChainFloor(head, c) > 0
  /\ request' = [request EXCEPT ![r] = [NoRequest EXCEPT !.pc = "floor", !.commitment = c,
                                          !.floor = ChainFloor(head, c), !.tip = head.tips[c]]]
  /\ UNCHANGED <<scenario, head, frozen, dropped>>

ReadHeadRows(r) ==
  /\ request[r].pc = "floor"
  /\ request' = [request EXCEPT ![r].pc = "rows",
                   ![r].rows = SignaturesForAddress(head, request[r].commitment)]
  /\ UNCHANGED <<scenario, head, frozen, dropped>>

\* Mutant: the cap is not looked at.
TakeRetentionFloor(r) ==
  /\ request[r].pc = "rows"
  /\ request' = [request EXCEPT ![r].pc = "answered", ![r].floor = Max({@, MinRetained(head)})]
  /\ UNCHANGED <<scenario, head, frozen, dropped>>

\* address_floor.
TakeAddressFloor(r) ==
  /\ request[r].pc = "rows"
  /\ request' = [request EXCEPT ![r].pc = "answered",
                   ![r].floor = Max({@, MinRetained(head),
                                     IF head.truncated = 0 THEN 0 ELSE head.truncated + 1})]
  /\ UNCHANGED <<scenario, head, frozen, dropped>>

Respond(r) ==
  /\ request[r].pc = "answered"
  /\ request' = [request EXCEPT ![r] = NoRequest]
  /\ UNCHANGED <<scenario, head, frozen, dropped>>

-----------------------------------------------------------------------------
Init ==
  /\ scenario \in Scenario
  /\ head = Fresh
  /\ frozen = {} /\ dropped = {}
  /\ request = [r \in Request |-> NoRequest]

Next ==
  \/ \E b \in Bank : \/ StageBankMetadata(b) \/ StageBankFooter(b) \/ StageBankEntries(b)
                     \/ FreezeBank(b) \/ DiscardBank(b)
                     \/ \E c \in scenario.levels : CommitBank(b, c)
  \/ EndBankSession \/ StartBankSession
  \/ \E r \in Request : \/ \E c \in scenario.levels : TakeChainFloor(r, c)
                        \/ ReadHeadRows(r) \/ TakeAddressFloor(r) \/ Respond(r)

Spec == Init /\ [][Next]_vars

-----------------------------------------------------------------------------
(***************************************************************************)
(* Properties.                                                             *)
(***************************************************************************)
\* getBlock returns the transactions of one bank, all of them and no others.
BlocksWhole ==
  \A s \in Slot, c \in Level : \A answer \in GetBlock(head, s, c) :
    answer.txs = Range(txsOf[answer.bank])

\* "Only a selected bank is published": at a slot that the bank state still tracks, a
\* signature is never projected by a bank that lost its slot or was discarded.
OnlySelectedProjected ==
  \A x \in Sig : LET b == head.metaBySig[x] IN
    b # NoBank /\ slotOf[b] >= BankFloor(head) => head.selected[slotOf[b]] = b

\* A bank that the stream discarded is served no longer, at a slot that the bank state
\* still tracks.
DiscardedNotServed ==
  \A b \in dropped : slotOf[b] >= BankFloor(head) => /\ head.slotBlock[slotOf[b]] # b
                                                    /\ \A x \in Sig : head.metaBySig[x] # b

\* A confirmed bank that the cache selected is served whole while it is retained, even if
\* an abandoned slot had some of its signatures first.
ConfirmedBlockServed ==
  \A s \in Slot : LET b == head.selected[s] IN
    b # NoBank /\ head.commitment[b] > 0 /\ s >= MinRetained(head) => GetBlock(head, s, 1) # {}

\* A session that asks for a minimum commitment projects nothing below it, even for a
\* reader at "processed".
MinimumHeld ==
  \A x \in Sig : head.metaBySig[x] # NoBank => head.commitment[head.metaBySig[x]] >= Minimum

\* A whole bank that is confirmed and reaches the minimum is selected, whether its status
\* came after the bank or before it.
SealedIsPublished ==
  \A b \in head.sealed :
    head.commitment[b] >= Max({Minimum, 1}) /\ slotOf[b] >= MinRetained(head)
      => head.selected[slotOf[b]] = b

\* The slots of a trusted chain are those of a path of the cluster's tree that the cache
\* holds: a getBlocks answer neither mixes forks nor lists a block without its rows.
ChainIsPath ==
  \A c \in Level : LET chain == TrustedChain(head, c) IN
    \A b \in chain : /\ head.slotBlock[slotOf[b]] = b
                     /\ slotOf[b] = Min({slotOf[d] : d \in chain}) \/ parentOf[b] \in chain

\* A footer that arrived for the selected bank is in the published block.
FooterServed ==
  \A b \in head.footers : head.selected[slotOf[b]] = b /\ slotOf[b] >= MinRetained(head)
                            => slotOf[b] \in head.slotFooter

\* getSignaturesForAddress: the head rows hold every transaction of the canonical chain
\* between the floor the request ended with and the tip its proof began with.
AddressFloorComplete ==
  \A r \in Request : request[r].pc = "answered" =>
    \A b \in Canonical : slotOf[b] \in request[r].floor..request[r].tip
                           => Range(txsOf[b]) \subseteq request[r].rows

\* getBlock returns the transactions of one bank, all of them and no others, and with
\* the footer if it arrived, in whatever order parts, footers and statuses came.
BlocksServedWhole == BlocksWhole /\ FooterServed

\* Signatures are projected by selected banks only: none that lost its slot, was
\* discarded or is below the session's minimum commitment.
WinnersProjected == OnlySelectedProjected /\ DiscardedNotServed /\ MinimumHeld

\* A whole bank that is confirmed gets selected and a selected one is served, whichever
\* of the status, the parts and an abandoned slot's claims came first.
ConfirmedServed == SealedIsPublished /\ ConfirmedBlockServed

\* The rows of an address stay within the cap, and a request that meets trimmed or
\* evicted rows is told a floor above what is missing.
AddressIndexSound == AddressFloorComplete /\ Cardinality(head.sigsByAddress) <= PerAddress
=============================================================================
