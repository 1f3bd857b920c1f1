---------------------------- MODULE AddressReads ----------------------------
(***************************************************************************)
(* getSignaturesForAddress (handlers/signatures.rs) and                    *)
(* getTransactionsForAddress (handlers/transactions.rs) of superbank-rpc:  *)
(* one page of the rows of an address, put together from the head cache,   *)
(* the disk cache and ClickHouse, any of which moves on while the request  *)
(* waits for another.                                                      *)
(*                                                                         *)
(* A row is its position, <<slot, index>>.  A page is a set: the handlers  *)
(* sort what they merge and drop duplicates.  The disk cache is what       *)
(* DiskCache proves of it, all the rows of one span; the head cache what   *)
(* HeadCache proves of it, all the rows from a slot to its tip.  The       *)
(* primary is appended to in slot order, and a replica of it may trail by  *)
(* Lag slots.                                                              *)
(***************************************************************************)
EXTENDS Integers, FiniteSets, FiniteSetsExt

CONSTANTS
  MaxSlot,
  Ledger,         \* the sets of rows an address may have
  Scenario,       \* configurations and the requests made under them
  Lag,            \* slots a replica of the primary trails by
  Margin          \* GSFA_WATERMARK_TIP_MARGIN_SLOTS

Slot == 1..MaxSlot

None == MaxSlot + 2     \* no slot, no proof, no bound above

ASSUME AddressReadsAssumption ==
  /\ MaxSlot \in Nat \ {0} /\ Lag \in Nat /\ Margin \in Nat /\ Lag <= Margin
  /\ \A L \in Ledger : L \subseteq Slot \X Nat
  /\ \A c \in Scenario : {c.retain, c.cap} \subseteq Nat \ {0}

VARIABLES
  scenario,       \* chosen once: max_per_address and retain_slots of the head, whether there is
                  \* a disk cache, GSFA_RACE_PRIMARY, CLICKHOUSE_GSFA_INLINE_CURSOR, the requests
  rows,           \* the rows of the address, chosen once
  primary,        \* the last slot ClickHouse holds
  disk,           \* the span of the disk cache, empty if lo > hi
  head,           \* the session of the head cache
  mark,           \* the empty-address watermark
  req             \* the request under way

vars == <<scenario, rows, primary, disk, head, mark, req>>

-----------------------------------------------------------------------------
(***************************************************************************)
(* Bounds and pages.                                                       *)
(***************************************************************************)
NoBound == [at |-> "none", slot |-> 0, idx |-> 0]

SlotBound(s) == [at |-> "slot", slot |-> s, idx |-> 0]

PositionBound(r) == [at |-> "position", slot |-> r[1], idx |-> r[2]]

Newer(r, x) == r[1] > x[1] \/ (r[1] = x[1] /\ r[2] > x[2])

position_before_boundary(r, b) ==
  CASE b.at = "none" -> TRUE [] b.at = "slot" -> r[1] < b.slot [] OTHER -> Newer(<<b.slot, b.idx>>, r)

position_after_boundary(r, b) ==
  CASE b.at = "none" -> TRUE [] b.at = "slot" -> r[1] > b.slot [] OTHER -> Newer(r, <<b.slot, b.idx>>)

InWindow(r, q) == position_before_boundary(r, q.before) /\ position_after_boundary(r, q.until)

Leads(r, x, order) == IF order = "desc" THEN Newer(r, x) ELSE Newer(x, r)

\* ORDER BY slot, slot_idx LIMIT n.
First(S, order, n) == {r \in S : Cardinality({x \in S : Leads(x, r, order)}) < n}

\* The rows of a request that a tier holding S returns, at most n of them.
PageOf(S, q, n) == First({r \in S : InWindow(r, q)}, q.order, n)

\* The slots a request may list.
gsfa_window(q) ==
  [upper |-> CASE q.before.at = "none" -> None [] q.before.at = "slot" -> q.before.slot - 1
               [] OTHER -> q.before.slot,
   lower |-> CASE q.until.at = "none" -> 0 [] q.until.at = "slot" -> q.until.slot + 1
               [] OTHER -> q.until.slot]

\* The lowest slot a newest-first request owes above a local tip.
tip_gap_start(tip, q) ==
  LET w == gsfa_window(q)
      start == Max({w.lower, tip + 1})
  IN  IF start <= w.upper THEN start ELSE None

-----------------------------------------------------------------------------
(***************************************************************************)
(* The tiers.                                                              *)
(***************************************************************************)
RowsIn(lo, hi) == {r \in rows : lo <= r[1] /\ r[1] <= hi}

\* What a replica of ClickHouse may answer from.
View == (IF primary > Lag THEN primary - Lag ELSE 0)..primary

NoHead == [up |-> FALSE, live |-> FALSE, base |-> 1, fin |-> 0, top |-> 0]

min_retained_slot == Max({0, head.top - (scenario.retain - 1)})

Received == RowsIn(head.base, head.top)

\* sigs_by_address: the cap drops the oldest, retention what is below it.
HeadList == {r \in First(Received, "desc", scenario.cap) : r[1] >= min_retained_slot}

address_list_full == Cardinality(HeadList) >= scenario.cap

\* address_truncated_slot: the highest slot the cap dropped a row from.
Truncated == Max({0} \cup {r[1] : r \in Received \ First(Received, "desc", scenario.cap)})

TipAt(level) == IF level = "finalized" THEN head.fin ELSE head.top

\* The newest rows of the head at a commitment.
signatures_for_address(q, before, until) ==
  First({r \in HeadList : /\ position_before_boundary(r, before) /\ position_after_boundary(r, until)
                          /\ r[1] <= TipAt(q.level)}, "desc", q.limit)

\* The lowest slot of a verified chain that ends at the tip.
chain_floor(level) ==
  IF head.up /\ head.live /\ TipAt(level) > head.base THEN Max({head.base, min_retained_slot}) ELSE None

\* Mutant: the cap on an address is forgotten.
AddressFloorUncapped(floor) ==
  IF floor = None THEN None ELSE Max({floor, min_retained_slot})

address_floor(floor) ==
  IF floor = None THEN None ELSE Max({floor, min_retained_slot, Truncated + 1})

head_proves_above(tip, level) ==
  /\ min_retained_slot <= tip + 1
  /\ chain_floor(level) # None
  /\ chain_floor(level) <= tip + 1 \/ TipAt(level) < tip + 1

HasSpan == scenario.disk /\ disk.lo <= disk.hi

\* Whether a page that is short owes what is below the span (clamp_until_to_floor for
\* getSignaturesForAddress, lower_bound_reaches_floor for getTransactionsForAddress).
FloorEffective(q) ==
  IF q.kind = "signatures"
  THEN q.until.at = "none" \/ q.until.slot + 1 < disk.lo
  ELSE q.until.at # "slot" \/ q.until.slot + 1 <= disk.lo

TipEffective(q) == q.before.at # "slot" \/ q.before.slot - 1 > disk.hi

\* signatures_for_address_until and transactions_for_address_until; address_page drops a page
\* whose span moved under it.
LocalPage(q) ==
  LET records == PageOf(RowsIn(disk.lo, disk.hi), q, q.limit)
      short   == Cardinality(records) < q.limit
  IN  [records |-> records, floor |-> disk.lo, tip |-> disk.hi,
       reached_floor |-> short /\ q.order = "desc" /\ FloorEffective(q),
       reached_tip |-> short /\ q.order = "asc" /\ TipEffective(q)]

-----------------------------------------------------------------------------
(***************************************************************************)
(* The request.                                                            *)
(***************************************************************************)
Idle == [phase |-> "idle"]

Begun(q, phase) ==
  [phase |-> phase, q |-> q, since |-> primary, deferred |-> FALSE, floor |-> None, head |-> {},
   page |-> {}, local |-> {}, below |-> None, above |-> 0, from |-> 0, mark |-> None, fill |-> None,
   fresh |-> None, fetched |-> "none"]

At(phase) == req.phase = phase

Become(r) == /\ req' = r
             /\ UNCHANGED <<scenario, rows, primary, disk, head, mark>>

Goto(phase) == Become(IF phase = "failed" THEN [phase |-> "failed"] ELSE [req EXCEPT !.phase = phase])

\* resolve_latest_slot_with_source: the head if it is live, else ClickHouse.
ContextSlot(q) == IF head.up /\ head.live THEN TipAt(q.level) ELSE primary

MinContextReached(q) == q.min <= ContextSlot(q)

Opened(q, next) ==
  /\ At("idle")
  /\ Become(IF ~MinContextReached(q) THEN [phase |-> "failed"]
            ELSE Begun(q, IF q.signed THEN "cursor" ELSE next))

\* The validation of a handler leaves only requests whose bounds are well formed.
handle_get_signatures_for_address(q) == q.kind = "signatures" /\ Opened(q, "floor")

handle_get_transactions_for_address(q) == q.kind = "transactions" /\ Opened(q, "tfa")

\* The response leaves.
Reply == req.phase \in {"done", "failed"} /\ Become(Idle)

Cursors(q) == {b \in {q.before, q.until} : b.at = "position"}

KnownToDisk(b) == HasSpan /\ disk.lo <= b.slot /\ b.slot <= disk.hi

KnownLocally(b) == <<b.slot, b.idx>> \in HeadList \/ KnownToDisk(b)

Missing(v) == {b \in Cursors(req.q) : ~KnownLocally(b) /\ b.slot > v}

\* resolve_cursor_on_primary, unless the position is left to the page query.
PrimaryCursor ==
  IF scenario.inline THEN Become([req EXCEPT !.phase = "floor", !.deferred = TRUE])
  ELSE \E v \in View : Goto(IF Missing(v) = {} THEN "floor" ELSE "failed")

\* A cursor is a signature: the head knows its position, or the disk cache, or the primary.
ResolveCursor ==
  /\ At("cursor") /\ req.q.kind = "signatures" /\ scenario.head
  /\ IF \A b \in Cursors(req.q) : KnownLocally(b) THEN Goto("floor") ELSE PrimaryCursor

ResolveCursorWithoutHead ==
  /\ At("cursor") /\ req.q.kind = "signatures" /\ ~scenario.head
  /\ IF \A b \in Cursors(req.q) : KnownToDisk(b) THEN Goto("floor") ELSE PrimaryCursor

\* An unknown cursor is no cursor.
apply_resolved_address_bounds(unknown) ==
  [req EXCEPT !.phase = "tfa",
     !.q.before = IF unknown # {} /\ @.at = "position" THEN NoBound ELSE @,
     !.q.until = IF unknown # {} /\ @.at = "position" THEN NoBound ELSE @]

resolve_signature_slot_for_bounds ==
  /\ At("cursor") /\ req.q.kind = "transactions"
  /\ \E v \in View : Become(apply_resolved_address_bounds(Missing(v)))

\* Any read of the primary may fail.
PrimaryFails ==
  /\ req.phase \in {"cursor", "inline", "primary", "remainder", "race", "tfaPrimary", "hydrate"}
  /\ Goto("failed")

\* The proof of the head is taken before its rows are read.
ReadChainFloor ==
  /\ At("floor") /\ scenario.head
  /\ Become([req EXCEPT !.phase = "rows", !.floor = chain_floor(req.q.level)])

Answered(r, kept) ==
  [Begun(r.q, "done") EXCEPT !.since = r.since, !.fresh = r.fresh, !.from = r.from, !.page = kept]

\* A full page of the head is the answer, as fresh as the head is.
ReadHeadRows ==
  /\ At("rows")
  /\ LET found == signatures_for_address(req.q, req.q.before, req.q.until)
     IN  IF req.deferred THEN Goto("inline")
         ELSE IF Cardinality(found) >= req.q.limit
              THEN Become(Answered([req EXCEPT !.fresh = head.fin], found))
              ELSE Become([req EXCEPT !.phase = "choose", !.head = found])

\* The primary finds the position of a deferred cursor inside the page query.
InlinePage ==
  /\ At("inline")
  /\ \E v \in View :
       IF \A b \in Cursors(req.q) : KnownLocally(b) \/ b.slot <= v
       THEN Become([req EXCEPT !.phase = IF scenario.head THEN "inlineHead" ELSE "merge", !.page = PageOf(RowsIn(1, v), req.q, req.q.limit)])
       ELSE Goto("failed")

InlineHead ==
  /\ At("inlineHead")
  /\ Become([req EXCEPT !.phase = "merge", !.head = signatures_for_address(req.q, req.q.before, req.q.until)])

local_page_reaches_watermark(floor, watermark) == floor <= watermark + 1

NoCursor(q) == q.before.at = "none" /\ q.until.at = "none"

watermark_provable ==
  /\ HasSpan /\ local_page_reaches_watermark(disk.lo, mark)
  /\ head_proves_above(disk.hi, req.q.level)

\* Which tiers the page is read from.
ChoosePage ==
  /\ At("choose")
  /\ Become(IF ~scenario.disk THEN [req EXCEPT !.phase = "primary"]
            ELSE IF ~scenario.race THEN [req EXCEPT !.phase = "serial"]
            ELSE IF NoCursor(req.q) /\ ~address_list_full /\ mark # None /\ watermark_provable
                 THEN [req EXCEPT !.phase = "watermark", !.mark = mark]
            ELSE [req EXCEPT !.phase = "race",
                    !.fill = IF NoCursor(req.q) /\ HasSpan THEN disk.hi ELSE None])

\* Without a head there is neither a proof nor a watermark.
ChooseWithoutHead ==
  /\ At("floor") /\ ~scenario.head
  /\ Goto(IF req.deferred THEN "inline" ELSE IF ~scenario.disk THEN "primary"
          ELSE IF scenario.race THEN "race" ELSE "serial")

\* The head rows merged later hold whatever the local page lacks above its tip.
tip_gap_covered(page, floor) ==
  LET start == tip_gap_start(page.tip, req.q)
  IN  start = None \/ (floor # None /\ floor <= start)

\* primary_gsfa_page.
PrimaryPage ==
  /\ At("primary")
  /\ \E v \in View :
       Become([req EXCEPT !.phase = "merge", !.page = PageOf(RowsIn(1, v), req.q, req.q.limit), !.fetched = "primary"])

\* serial_gsfa_page: the local page first, then what the primary owes below its floor.
SerialPage ==
  /\ At("serial")
  /\ LET page == LocalPage(req.q)
     IN  \/ /\ HasSpan /\ tip_gap_covered(page, address_floor(req.floor))
            /\ Become(IF page.reached_floor
                      THEN [req EXCEPT !.phase = "remainder", !.local = page.records, !.below = page.floor]
                      ELSE [req EXCEPT !.phase = "merge", !.local = page.records])
         \/ Goto("primary")

\* clamp_before_to_floor.
Remainder ==
  /\ At("remainder")
  /\ \E v \in View :
       Become([req EXCEPT !.phase = "merge",
                 !.page = PageOf({r \in RowsIn(1, v) : r[1] < req.below}, req.q,
                                 req.q.limit - Cardinality(req.local))])

\* watermark_gsfa_page: nothing is below the watermark, the local page covers the slots up to
\* its tip, the head the others.
WatermarkPage ==
  /\ At("watermark")
  /\ LET page == LocalPage(req.q)
         hit  == /\ local_page_reaches_watermark(page.floor, req.mark)
                 /\ head_proves_above(page.tip, req.q.level)
     IN  \/ /\ HasSpan /\ (~page.reached_floor \/ hit)
            /\ Become([req EXCEPT !.phase = "merge", !.local = page.records])
         \/ Goto("primary")

\* race_gsfa_page: a complete local page, or the page of the primary, whichever is first.
RaceLocal ==
  /\ At("race")
  /\ HasSpan
  /\ LET page == LocalPage(req.q)
     IN  /\ ~page.reached_floor
         /\ tip_gap_covered(page, address_floor(req.floor))
         /\ Become([req EXCEPT !.phase = "merge", !.local = page.records])

RacePrimary ==
  /\ At("race")
  /\ \E v \in View :
       Become([req EXCEPT !.phase = "merge", !.page = PageOf(RowsIn(1, v), req.q, req.q.limit), !.fetched = "primary"])

\* Mutant: no room for a replica that trails.
FillWatermarkAtTip(tip) == tip

fill_watermark(tip) == IF tip > Margin THEN tip - Margin ELSE 0

\* An empty page of the primary writes the watermark, rows remove it.
KeepMark ==
  mark' = IF ~NoCursor(req.q) \/ ~scenario.disk THEN mark
          ELSE IF req.page # {} THEN None
          ELSE IF req.fetched = "primary" /\ req.fill # None THEN fill_watermark(req.fill)
          ELSE mark

\* The rows of the three tiers, newest first, without duplicates.
MergePage ==
  /\ At("merge") /\ scenario.head
  /\ req' = Answered(req, First(req.page \cup req.local \cup req.head, "desc", req.q.limit))
  /\ KeepMark
  /\ UNCHANGED <<scenario, rows, primary, disk, head>>

MergeWithoutHead ==
  /\ At("merge") /\ ~scenario.head
  /\ Become(Answered(req, First(req.page \cup req.local, "desc", req.q.limit)))

-----------------------------------------------------------------------------
(***************************************************************************)
(* getTransactionsForAddress.                                              *)
(***************************************************************************)
SlotFiltered(q) == "slot" \in {q.before.at, q.until.at}

PageBound(b) == IF b.at = "position" THEN b ELSE NoBound

\* The head takes the newest rows within the page bound, then applies the slot filter.
HeadMerge(q) ==
  IF ~q.plain THEN {}
  ELSE {r \in signatures_for_address(q, PageBound(q.before), PageBound(q.until)) : InWindow(r, q)}

\* A newest-first page without any filter may be the head's alone.
TfaHeadOnly ==
  /\ At("tfa")
  /\ LET q == req.q
         found == signatures_for_address(q, NoBound, NoBound)
     IN  IF NoCursor(q) /\ q.plain /\ q.order = "desc" /\ Cardinality(found) >= q.limit
         THEN Become(Answered([req EXCEPT !.fresh = head.fin], found))
         ELSE Goto(IF q.order = "asc" THEN "tfaFloor" ELSE "tfaDisk")

\* An ascending page starts at its oldest row: the disk cache must hold that one.
TfaFloor ==
  /\ At("tfaFloor")
  /\ Goto(IF HasSpan /\ req.q.until.at # "none" /\ gsfa_window(req.q).lower >= disk.lo
          THEN "tfaDisk" ELSE "tfaPrimary")

\* The head counts only where the merge takes all its rows of the gap.
TfaHeadFloor(page, q) ==
  IF ~page.reached_floor /\ q.plain /\ ~SlotFiltered(q) THEN address_floor(chain_floor(q.level)) ELSE None

TfaCovered(page, q) == q.order = "asc" \/ tip_gap_covered(page, TfaHeadFloor(page, q))

MergedRows(r) == First(r.page \cup r.local \cup r.head, r.q.order, r.q.limit)

\* The rows are the answer, or their transactions are read next.
Listed(r) == IF r.q.full THEN [r EXCEPT !.phase = "hydrate"] ELSE Answered(r, MergedRows(r))

\* The local page and, if it is complete, the head rows at once; else the primary owes the
\* slots below the floor, or above the tip, of the local page.  The page takes the span anew:
\* from is the floor an ascending one started at.
TfaDisk ==
  /\ At("tfaDisk")
  /\ LET q == req.q
         page == LocalPage(q)
         paged == [req EXCEPT !.local = page.records, !.from = IF q.order = "asc" THEN page.floor ELSE 0]
     IN  \/ /\ HasSpan /\ TfaCovered(page, q)
            /\ Become(IF page.reached_floor
                      THEN [paged EXCEPT !.phase = "tfaPrimary", !.below = page.floor]
                      ELSE IF page.reached_tip
                      THEN [paged EXCEPT !.phase = "tfaPrimary", !.above = page.tip]
                      ELSE IF scenario.split
                      THEN [paged EXCEPT !.phase = "tfaHead"]
                      ELSE Listed([paged EXCEPT !.head = HeadMerge(q)]))
         \/ Goto("tfaPrimary")

TfaPrimary ==
  /\ At("tfaPrimary")
  /\ \E v \in View :
       Become([req EXCEPT !.phase = "tfaHead", !.fetched = "primary",
                 !.page = PageOf({r \in RowsIn(1, v) : r[1] < req.below /\ r[1] > req.above}, req.q,
                                 req.q.limit - Cardinality(req.local))])

TfaHead ==
  /\ At("tfaHead")
  /\ Become(Listed([req EXCEPT !.head = HeadMerge(req.q)]))

\* get_tx: a transaction leaves the head with its slot, not with the list of an address.
HeadHasTransaction(r) == r \in Received /\ r[1] >= min_retained_slot

\* The transactions themselves: from the tier the row came from, a row the disk cache has lost
\* from the primary.  A row without a transaction is dropped.  The replica read here holds what
\* the one that listed the rows held.
Hydrate ==
  /\ At("hydrate")
  /\ Become(Answered(req, {r \in MergedRows(req) :
                             \/ r \in req.page \cup req.local /\ r[1] <= primary
                             \/ r \in req.head /\ HeadHasTransaction(r)}))

-----------------------------------------------------------------------------
(***************************************************************************)
(* The world around the request.                                           *)
(***************************************************************************)
\* What is merged or sent no longer depends on the tiers.
Surroundings(p, d, h, m) ==
  /\ req.phase \notin {"merge", "done", "failed"}
  /\ primary' = p /\ disk' = d /\ head' = h /\ mark' = m
  /\ UNCHANGED <<scenario, rows, req>>

\* The ingestor.  It trails a head whose tip moves.
Ingest ==
  /\ primary < MaxSlot
  /\ head.up /\ head.live => primary < head.fin
  /\ Surroundings(primary + 1, disk, head, mark)

\* The filler copies the next slot of the primary, the evictor drops the oldest.
FillDisk ==
  /\ scenario.disk
  /\ \/ /\ disk.lo > disk.hi
        /\ \E s \in 1..primary : Surroundings(primary, [lo |-> s, hi |-> s], head, mark)
     \/ /\ disk.lo <= disk.hi /\ disk.hi < primary
        /\ Surroundings(primary, [disk EXCEPT !.hi = @ + 1], head, mark)

EvictDisk ==
  /\ HasSpan
  /\ Surroundings(primary, [disk EXCEPT !.lo = @ + 1], head, mark)

\* A slot found wrong leaves the span; the tip falls below it.
PoisonDisk ==
  /\ HasSpan /\ ~At("watermark")
  /\ Surroundings(primary, [disk EXCEPT !.hi = @ - 1], head, mark)

\* The watermark page takes its proof after the head rows were read: a head that was behind does
\* not come back in between (see the README).
Settled == req.phase \notin {"choose", "watermark"}

\* A session starts with an empty cache, at or above what the primary holds.
Connect ==
  /\ scenario.head /\ ~head.up /\ Settled
  /\ \E s \in primary..MaxSlot :
       /\ s > 0
       /\ Surroundings(primary, disk, [up |-> TRUE, live |-> TRUE, base |-> s, fin |-> s, top |-> s], mark)

\* A head that catches up is not trusted before it has reached the primary.  Retention outlasts
\* the hydration of one page.
Advance ==
  /\ head.up
  /\ ~At("hydrate") /\ (head.live \/ Settled)
  /\ \/ /\ head.top < MaxSlot /\ head.top = head.fin
        /\ Surroundings(primary, disk, [head EXCEPT !.top = @ + 1], mark)
     \/ /\ head.fin < head.top
        /\ Surroundings(primary, disk, [head EXCEPT !.fin = @ + 1, !.live = @ \/ head.fin + 1 >= primary], mark)

\* TIP_MAX_AGE passes without a new tip.
Stall ==
  /\ head.up /\ head.live
  /\ Surroundings(primary, disk, [head EXCEPT !.live = FALSE], mark)

\* Between the proof and the page a session does not end (see the finding on HeadCache).
EndSession ==
  /\ head.up
  /\ req.phase \notin {"rows", "choose", "serial", "watermark", "race", "hydrate"}
  /\ Surroundings(primary, disk, NoHead, mark)

Expire ==
  /\ mark # None
  /\ Surroundings(primary, disk, head, None)

Environment ==
  \/ Ingest \/ FillDisk \/ EvictDisk \/ PoisonDisk
  \/ Connect \/ Advance \/ Stall \/ EndSession \/ Expire

-----------------------------------------------------------------------------
Init ==
  /\ scenario \in Scenario
  /\ rows \in Ledger
  /\ primary = 1
  /\ disk = [lo |-> 1, hi |-> 0]
  /\ head = NoHead
  /\ mark = None
  /\ req = Idle

Signatures ==
  \/ ReadChainFloor \/ ReadHeadRows \/ InlinePage \/ InlineHead \/ ChoosePage
  \/ PrimaryPage \/ SerialPage \/ Remainder \/ WatermarkPage \/ RaceLocal \/ RacePrimary \/ MergePage
  \/ ChooseWithoutHead \/ MergeWithoutHead

Transactions ==
  TfaHeadOnly \/ TfaFloor \/ TfaDisk \/ TfaPrimary \/ TfaHead \/ Hydrate

Next ==
  \/ \E q \in scenario.queries :
       handle_get_signatures_for_address(q) \/ handle_get_transactions_for_address(q)
  \/ ResolveCursor \/ ResolveCursorWithoutHead \/ resolve_signature_slot_for_bounds \/ PrimaryFails \/ Reply
  \/ Signatures
  \/ Transactions
  \/ Environment

Spec == Init /\ [][Next]_vars

-----------------------------------------------------------------------------
(***************************************************************************)
(* Properties.                                                             *)
(***************************************************************************)
\* What every replica held when the request began, as far as the tier that answered alone goes.
Horizon == Min({req.since - Lag, req.fresh})

\* Every row the page owes from a slot on is on it, or the page is full of rows that come before.
ServedFrom(low) ==
  \A r \in rows : (low <= r[1] /\ r[1] <= Horizon /\ InWindow(r, req.q)) =>
    \/ r \in req.page
    \/ Cardinality(req.page) = req.q.limit /\ \A x \in req.page : Leads(x, r, req.q.order)

\* A page leaves out no row that ClickHouse held when the request began
\* (handlers/signatures.rs race_gsfa_page, watermark_gsfa_page and the merge;
\* handlers/transactions.rs), except that an ascending page of the disk cache owes nothing
\* below the floor it was read at.  Every row is one of the address and within the bounds.
OwedRowsServed ==
  At("done") =>
    /\ \A r \in req.page : r \in rows /\ InWindow(r, req.q)
    /\ ServedFrom(req.from)

\* A page answered from the disk cache leaves out no owed row: "returning the primary rows or a
\* complete local page" (handlers/signatures.rs), and "an ascending page that starts below the
\* floor must come from ClickHouse in full" (handlers/transactions.rs).
OwedInFull ==
  At("done") => ServedFrom(0)

\* An empty-address watermark says that the primary has no row at or below it
\* (disk_cache/gsfa_watermark.rs).
WatermarkTrue ==
  mark # None => \A r \in rows : r[1] > mark
=============================================================================
