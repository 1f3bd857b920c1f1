---------------------------- MODULE PrimaryReads ----------------------------
(***************************************************************************)
(* How ClickHouse answers for an address (clickhouse/gsfa.rs,              *)
(* clickhouse/transactions.rs, clickhouse/queries.rs): a page of           *)
(* signatures or of transactions, read from the shard that owns the        *)
(* address, from every shard if the address is hot, or through the         *)
(* distributed table, with the fallbacks between them; and the             *)
(* transactions at given positions.                                        *)
(*                                                                         *)
(* A row is a record: its position, its signature, the table it is in and  *)
(* a number that tells copies apart, because a table may hold a row more   *)
(* than once until ClickHouse merges its parts.  Positions are numbers,    *)
(* SlotWidth of them to a slot.  A replica holds the rows in old and may   *)
(* lack the others.                                                        *)
(***************************************************************************)
EXTENDS Integers, FiniteSets, FiniteSetsExt

CONSTANTS
  Scenario,       \* tables, routes and requests
  Shard,
  SlotWidth,
  MinBatch, MaxBatch,   \* TRANSACTIONS_FOR_ADDRESS_MIN_BATCH_SIZE and ..._MAX_...
  Chunk                 \* positions in one query

PrimaryReadsAssumption ==
  /\ {SlotWidth, MinBatch, MaxBatch, Chunk} \subseteq Nat \ {0} /\ MinBatch <= MaxBatch
  /\ \A c \in Scenario : c.old \subseteq c.rows /\ c.mode \in {"disabled", "empty", "incomplete"}

VARIABLES
  config,         \* chosen once
  hot,            \* gsfa_hot_pubkeys has the address
  job             \* the request under way

vars == <<config, hot, job>>

None == 0

SlotOf(pos) == (pos + SlotWidth - 1) \div SlotWidth

-----------------------------------------------------------------------------
(***************************************************************************)
(* Queries.                                                                *)
(***************************************************************************)
Comes(a, b, order) ==
  LET less == \/ a.pos < b.pos
              \/ a.pos = b.pos /\ a.sig < b.sig
              \/ a.pos = b.pos /\ a.sig = b.sig /\ a.copy < b.copy
      same == a.pos = b.pos /\ a.sig = b.sig /\ a.copy = b.copy
  IN  IF order = "asc" THEN less ELSE ~less /\ ~same

\* ORDER BY slot, slot_idx, signature LIMIT n.
First(S, order, n) == {r \in S : Cardinality({x \in S : Comes(x, r, order)}) < n}

\* A replica that answers.
Views == {config.old, config.rows}

build_pagination_clauses(S, q) ==
  {r \in S : (q.before = None \/ r.pos < q.before) /\ (q.until = None \/ r.pos > q.until)}

build_gsfa_signatures_query(S, q) ==
  First({r \in build_pagination_clauses(S, q) : r.table = "gsfa"}, "desc", q.limit)

\* tokenAccounts adds the rows of token_owner_activity, changed ones or all.
TokenRows(S, q) == {r \in S : r.table = "owner" /\ (q.tokens = "changed" => r.changed)}

AddressRows(S, q) ==
  {r \in S : r.table = "gsfa"} \cup (IF q.tokens = "none" THEN {} ELSE TokenRows(S, q))

\* The position after which the next batch starts replaces the one the request came with.
apply_pagination_token(S, order, after) ==
  {r \in S : after = None \/ (IF order = "desc" THEN r.pos < after ELSE r.pos > after)}

build_transactions_for_address_query(S, q, after, n) ==
  First(apply_pagination_token(build_pagination_clauses(AddressRows(S, q), q), q.order, after), q.order, n)

-----------------------------------------------------------------------------
(***************************************************************************)
(* Routes.                                                                 *)
(***************************************************************************)
\* An address of the configuration is read from the hot table if that table has rows of it; without
\* an answer at startup the standard table serves it.
initialize_gsfa_hot_addresses ==
  /\ job.route = "starting"
  /\ \E answered \in BOOLEAN : hot' = (answered /\ config.listed)
  /\ job' = [route |-> "idle"] /\ UNCHANGED config

\* The hot table spreads an address over the shards.
ShardOf(r) == IF hot THEN config.place[r.pos] ELSE config.owner

should_use_gsfa_hot_fanout == config.direct /\ hot

should_use_gsfa_shard_routing == config.direct /\ ~hot

FirstRoute(q) ==
  IF should_use_gsfa_hot_fanout /\ q.tokens = "none" THEN (IF config.tcp THEN "hotTcp" ELSE "hotHttp")
  ELSE IF should_use_gsfa_shard_routing THEN (IF config.tcp THEN "tcp" ELSE "http")
  ELSE "distributed"

\* One row per signature, the one that comes first.
Unique(S, order) == {r \in S : ~\E x \in S : x.sig = r.sig /\ Comes(x, r, order)}

\* Mutant: the page is cut before its copies are dropped.
CutBeforeMerge(S, n) == Unique(First(S, "desc", n), "desc")

merge_hot_signature_records(S, n) == First(Unique(S, "desc"), "desc", n)

order_transactions_for_address_records(S, order, n) == First(S, order, n)

Become(j) == job' = j /\ UNCHANGED <<config, hot>>

Go(route) == Become([job EXCEPT !.route = route])

Fails == Become([route |-> "failed"])

\* The shards' rows as each replica asked may see them.
AtShards(view) == {{r \in view[s] : ShardOf(r) = s} : s \in Shard}

GsfaAnswer(S) == build_gsfa_signatures_query(S, job.q)

GsfaGot(S) == Become([job EXCEPT !.route = "fallback", !.batch = S])

\* Every active shard answers, each with as many rows as the page has.
GsfaHot ==
  \E view \in [Shard -> Views] :
    GsfaGot(merge_hot_signature_records(UNION {GsfaAnswer(S) : S \in AtShards(view)}, job.q.limit))

AtGsfa(route) == job.route = route /\ job.q.kind = "gsfa"

\* A TCP query: a transient failure is tried over HTTP, another one ends the request.
GsfaHotTcp == AtGsfa("hotTcp") /\ (GsfaHot \/ Go("hotHttp") \/ Fails)

GsfaHotHttp == AtGsfa("hotHttp") /\ (GsfaHot \/ Fails)

GsfaOwnerTcp ==
  /\ AtGsfa("tcp")
  /\ (\E view \in Views : GsfaGot(GsfaAnswer(view))) \/ Go("http") \/ Fails

GsfaOwnerHttp ==
  /\ AtGsfa("http")
  /\ (\E view \in Views : GsfaGot(GsfaAnswer(view))) \/ Go("distributed")

GsfaDistributed ==
  /\ AtGsfa("distributed")
  /\ (\E view \in Views : GsfaGot(GsfaAnswer(view))) \/ Fails

TfaAnswer(S) == build_transactions_for_address_query(S, job.q, job.after, job.size)

TfaGot(S) == Become([job EXCEPT !.route = "append", !.batch = S])

TfaHot ==
  \E view \in [Shard -> Views] :
    TfaGot(order_transactions_for_address_records(UNION {TfaAnswer(S) : S \in AtShards(view)},
                                                  job.q.order, job.size))

AtTfa(route) == job.route = route /\ job.q.kind = "tfa"

TfaHotTcp == AtTfa("hotTcp") /\ (TfaHot \/ Go("hotHttp") \/ Fails)

TfaHotHttp == AtTfa("hotHttp") /\ (TfaHot \/ Fails)

TfaOwnerTcp ==
  /\ AtTfa("tcp")
  /\ (\E view \in Views : TfaGot(TfaAnswer(view))) \/ Go("http") \/ Fails

\* A page of transactions does not fall back to the distributed table.
TfaOwnerHttp ==
  /\ AtTfa("http")
  /\ (\E view \in Views : TfaGot(TfaAnswer(view))) \/ Fails

TfaDistributed ==
  /\ AtTfa("distributed")
  /\ (\E view \in Views : TfaGot(TfaAnswer(view))) \/ Fails

-----------------------------------------------------------------------------
(***************************************************************************)
(* getSignaturesForAddress.                                                *)
(***************************************************************************)
Idle == [route |-> "idle"]

get_signatures_for_address_with_positions(q) ==
  /\ job = Idle /\ q.kind = "gsfa"
  /\ Become([route |-> FirstRoute(q), q |-> q, batch |-> {}, after |-> None])

\* The signature of a cursor has its newest position in the signatures table.
CursorPos(sig, view) == Max({None} \cup {r.pos : r \in {x \in view : x.sig = sig}})

\* One query resolves the cursor and reads the page after it; a cursor that is missing is reported.
get_signatures_for_address_inline_cursor(q) ==
  /\ job = Idle /\ q.kind = "inline" /\ ~config.direct /\ config.mode = "disabled"
  /\ \/ \E view \in Views :
          LET pos == CursorPos(q.cursor, view)
          IN  IF pos = None THEN Become([route |-> "missing", q |-> q])
              ELSE Become([route |-> "done", q |-> [q EXCEPT !.before = pos], after |-> None,
                           page |-> build_gsfa_signatures_query(view, [q EXCEPT !.before = pos])])
     \/ Fails

ShouldFallback ==
  \/ config.mode = "empty" /\ job.batch = {}
  \/ config.mode = "incomplete" /\ Cardinality(job.batch) < job.q.limit

Done(S) == Become([route |-> "done", q |-> job.q, after |-> job.after, page |-> S])

\* A scan of the transactions table replaces the page unless it finds nothing.
maybe_apply_gsfa_fallback ==
  /\ job.route = "fallback"
  /\ IF ~ShouldFallback THEN Done(job.batch)
     ELSE \/ \E view \in Views :
               LET scan == build_gsfa_signatures_query(view, job.q)
               IN  Done(IF scan = {} THEN job.batch ELSE scan)
          \/ Fails

-----------------------------------------------------------------------------
(***************************************************************************)
(* getTransactionsForAddress.                                              *)
(***************************************************************************)
transactions_for_address_batch_size(remaining) == Min({Max({2 * remaining, MinBatch}), MaxBatch})

\* tokenAccounts is refused where its table does not exist.
get_transactions_for_address_signatures(q) ==
  /\ job = Idle /\ q.kind = "tfa"
  /\ IF q.tokens # "none" /\ ~config.activity THEN Fails
     ELSE Become([route |-> FirstRoute(q), q |-> q, batch |-> {}, after |-> None, records |-> {},
                  size |-> transactions_for_address_batch_size(q.limit)])

append_unique(records, batch) ==
  records \cup First({r \in Unique(batch, job.q.order) : r.sig \notin {x.sig : x \in records}},
                     job.q.order, job.q.limit - Cardinality(records))

LastPos(S) == IF job.q.order = "desc" THEN Min({r.pos : r \in S}) ELSE Max({r.pos : r \in S})

\* Mutant: the rows that were new decide whether there is more.
ShortOfNew(records) == Cardinality(records) - Cardinality(job.records) < job.size

\* A batch that is not full is the last one.
Short(records) == Cardinality(job.batch) < job.size

\* Until the page is full or the rows end: copies take room in a batch and none on the page.
AppendBatch ==
  /\ job.route = "append"
  /\ LET records == append_unique(job.records, job.batch)
     IN  IF \/ Cardinality(records) >= job.q.limit
            \/ Short(records)
            \/ LastPos(job.batch) = job.after
         THEN Done(records)
         ELSE Become([job EXCEPT !.route = FirstRoute(job.q), !.records = records,
                                 !.after = LastPos(job.batch), !.batch = {},
                                 !.size = transactions_for_address_batch_size(job.q.limit - Cardinality(records))])

-----------------------------------------------------------------------------
(***************************************************************************)
(* Transactions at positions.                                              *)
(***************************************************************************)
\* A page of transactions at the positions the index has for them; the table may have another.
get_transactions_by_positions(q) ==
  /\ job = Idle /\ q.kind = "positions"
  /\ Become([route |-> "exact", q |-> q, left |-> q.pairs, now |-> {}, batch |-> {}, found |-> {}])

NextChunk == {p \in job.left : Cardinality({x \in job.left : x.sig < p.sig}) < Chunk}

\* (slot, slot_idx, signature) IN or (slot, signature) IN.
build_transactions_by_slot_signatures_query(S, pairs) ==
  {r \in S : \E p \in pairs : /\ r.sig = p.sig /\ SlotOf(r.pos) = SlotOf(p.pos)
                              /\ p.exact => r.pos = p.pos}

\* Shards in parallel, each asked for the pairs whose slots it holds.  One that fails, or nothing
\* found, leaves it to the distributed table.
try_get_transactions_by_slot_signatures_local(view, pairs) ==
  UNION {build_transactions_by_slot_signatures_query(
           {r \in view[s] : config.home[SlotOf(r.pos)] = s},
           {p \in pairs : config.home[SlotOf(p.pos)] = s}) : s \in Shard}

\* fetch_transaction_pairs: the rows that a read of the transactions may return.
PairRows(pairs) ==
  LET local == {try_get_transactions_by_slot_signatures_local(view, pairs) : view \in [Shard -> Views]}
      whole == {build_transactions_by_slot_signatures_query(view, pairs) : view \in Views}
  IN  IF config.direct /\ ~config.tcp THEN (local \ {{}}) \cup whole ELSE whole

\* Mutant: what was not found is asked for in the same way again.
UnresolvedExact(pairs, S) ==
  {p \in pairs : ~\E r \in S : r.sig = p.sig /\ SlotOf(r.pos) = SlotOf(p.pos)}

unresolved_transaction_pairs(pairs, S) ==
  {[p EXCEPT !.exact = FALSE] :
     p \in {x \in pairs : ~\E r \in S : r.sig = x.sig /\ SlotOf(r.pos) = SlotOf(x.pos)}}

FetchExact ==
  /\ job.route = "exact" /\ job.left # {}
  /\ \/ \E S \in PairRows(NextChunk) :
          Become([job EXCEPT !.route = "identity", !.now = NextChunk, !.batch = S])
     \/ Fails

\* What is not at its position is looked for by signature in its slot.
FetchByIdentity ==
  /\ job.route = "identity"
  /\ LET missing == unresolved_transaction_pairs(job.now, job.batch)
     IN  \/ \E S \in (IF missing = {} THEN {{}} ELSE PairRows(missing)) :
              Become([job EXCEPT !.route = "exact", !.left = @ \ job.now, !.now = {}, !.batch = {},
                                 !.found = @ \cup {r.sig : r \in job.batch \cup S}])
         \/ missing # {} /\ Fails

PositionsDone ==
  /\ job.route = "exact" /\ job.left = {}
  /\ Become([route |-> "found", q |-> job.q, found |-> job.found])

-----------------------------------------------------------------------------
\* A request ends and the next one begins.
Reply == job.route \in {"done", "found", "missing", "failed"} /\ Become(Idle)

Init == config \in Scenario /\ hot = FALSE /\ job = [route |-> "starting"]

Next ==
  \/ \E q \in config.queries :
       \/ get_signatures_for_address_with_positions(q) \/ get_signatures_for_address_inline_cursor(q)
       \/ get_transactions_for_address_signatures(q) \/ get_transactions_by_positions(q)
  \/ initialize_gsfa_hot_addresses
  \/ GsfaHotTcp \/ GsfaHotHttp \/ GsfaOwnerTcp \/ GsfaOwnerHttp \/ GsfaDistributed
  \/ TfaHotTcp \/ TfaHotHttp \/ TfaOwnerTcp \/ TfaOwnerHttp \/ TfaDistributed
  \/ maybe_apply_gsfa_fallback \/ AppendBatch
  \/ FetchExact \/ FetchByIdentity \/ PositionsDone
  \/ Reply

Spec == Init /\ [][Next]_vars

-----------------------------------------------------------------------------
(***************************************************************************)
(* Properties.                                                             *)
(***************************************************************************)
\* The hot fan-out, which drops the copies its shards answered with, served the page, or a scan
\* of the transactions that replaced it.
FannedOut == job.q.kind = "gsfa" /\ should_use_gsfa_hot_fanout

\* Copies took the room of row r in what its shard answered to the hot fan-out.
Crowded(r) ==
  \E view \in Views :
    LET answer == build_gsfa_signatures_query({x \in view : ShardOf(x) = ShardOf(r)}, job.q)
    IN  r \notin answer /\ Cardinality({x.sig : x \in answer}) < Cardinality(answer)

\* A page from ClickHouse leaves out no signature that all its replicas hold: the signature is on
\* the page, or the page is full of rows that come before it, whatever route and whatever
\* replicas served it (clickhouse/transactions.rs get_transactions_for_address_signatures,
\* clickhouse/gsfa.rs).  A page of transactions has a signature once, and copies take no room on
\* it.  A page of signatures counts copies as rows and may repeat them, except the hot fan-out's,
\* which has a signature once but may lack one whose room in its shard's answer copies took.
PrimaryPageExact ==
  job.route = "done" =>
    LET order == IF job.q.kind = "tfa" THEN job.q.order ELSE "desc"
        asked(S) == build_pagination_clauses(AddressRows(S, job.q), job.q)
    IN  /\ job.page \subseteq asked(config.rows) /\ Cardinality(job.page) <= job.q.limit
        /\ job.q.kind = "tfa" \/ (FannedOut /\ config.mode = "disabled") => job.page = Unique(job.page, order)
        /\ \A r \in Unique(asked(config.old), order) :
             \/ \E x \in job.page : x.sig = r.sig
             \/ Cardinality(job.page) = job.q.limit /\ \A x \in job.page : Comes(x, r, order)
             \/ FannedOut /\ Crowded(r)

\* A listed transaction that all replicas hold in its slot is found, at its listed index or not
\* (clickhouse/transactions.rs get_transactions_by_positions).
PositionsFound ==
  job.route = "found" =>
    \A p \in job.q.pairs :
      (\E r \in config.old : r.sig = p.sig /\ SlotOf(r.pos) = SlotOf(p.pos)) => p.sig \in job.found
=============================================================================
