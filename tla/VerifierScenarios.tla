------------------------- MODULE VerifierScenarios -------------------------
(***************************************************************************)
(* The ledgers and jobs the verifier is checked on.  The chain is 0 <- 1   *)
(* <- 3 <- 4 with slot 2 skipped, one tick per slot and two hashes per     *)
(* tick; every other ledger is the chain with one thing wrong.             *)
(***************************************************************************)
EXTENDS Integers, SequencesExt

\* Transactions in the entries before entry i of a layout, which has the number
\* of hashes and of transactions of each entry.
Before(layout, i) == MapThenSumSet(LAMBDA j : layout[j][2], 1 .. i - 1)

\* The first transaction of a slot has two signatures.
SignaturesOf(slot, idx) ==
  IF idx = 0 THEN <<<<slot, 0, 0>>, <<slot, 0, 1>>>> ELSE <<<<slot, idx, 0>>>>

\* A block as its producer makes it.
BlockOf(slot, parent, parent_hash, layout) ==
  LET count == Before(layout, Len(layout) + 1)
      mixed(i) == FlattenSeq([k \in 1 .. layout[i][2] |-> SignaturesOf(slot, Before(layout, i) + k - 1)])
      hashes[i \in 0 .. Len(layout)] ==
        IF i = 0 THEN parent_hash
        ELSE hashes[i - 1] \o [j \in 1 .. Max({layout[i][1] - 1, 0}) |-> <<>>] \o <<mixed(i)>>
  IN  [parent |-> parent, parent_hash |-> parent_hash, hash |-> hashes[Len(layout)],
       executed |-> count, entry_count |-> Len(layout),
       signatures |-> [idx \in 0 .. count - 1 |-> SignaturesOf(slot, idx)],
       entries |-> [i \in 1 .. Len(layout) |->
                      [entry_index |-> i - 1, num_hashes |-> layout[i][1], hash |-> hashes[i],
                       starting_transaction_index |-> Before(layout, i),
                       transaction_count |-> layout[i][2]]]]

Parent == 0 :> 0 @@ 1 :> 0 @@ 3 :> 1 @@ 4 :> 3

Genesis == <<<<>>>>
Other == <<<<<<9, 9, 9>>>>>>

ChainOf(layouts) ==
  LET chain[s \in DOMAIN Parent] ==
        BlockOf(s, Parent[s], IF s = 0 THEN Genesis ELSE chain[Parent[s]].hash, layouts[s])
  IN  chain

Layouts ==
  0 :> <<<<2, 0>>>> @@ 1 :> <<<<1, 1>>, <<1, 0>>>>
  @@ 3 :> <<<<2, 0>>, <<1, 2>>, <<1, 0>>>> @@ 4 :> <<<<2, 0>>>>

Chain == ChainOf(Layouts)

\* Layouts of slot 1 or 3 that break a rule, or bend it.
Odd(slot, layout) == ChainOf([Layouts EXCEPT ![slot] = layout])

\* The slots after 1 as Alpenglow makes them: one tick, one hash in every entry.
Alpenglow == ChainOf([Layouts EXCEPT ![1] = <<<<2, 0>>>>, ![3] = <<<<1, 2>>, <<1, 0>>>>, ![4] = <<<<1, 0>>>>])

Without(slots) == Restrict(Chain, DOMAIN Chain \ slots)

Settings(mode, anchors, pin, audit) == {[mode |-> mode, anchors |-> anchors, pin |-> pin, audit |-> audit]}
NoAnchors == [s \in {} |-> Other]
Full == Settings("full", NoAnchors, <<>>, FALSE)
Structural == Settings("structural", NoAnchors, <<>>, FALSE)

\* Slots 0 to 4 in windows of two.
Job ==
  [rows |-> Chain, conflicts |-> {}, start |-> 0, end |-> 4, full |-> FALSE, tip |-> 4,
   window_slots |-> 2, fetch_ahead |-> 1, max_failures |-> 0, resume |-> TRUE, checkpoint |-> TRUE,
   eras |-> <<<<0, 2>>>>, settings |-> Full, boundary |-> {<<>>}]

On(ledger) == [Job EXCEPT !.rows = ledger]

\* Entries, hashes and transactions that are wrong in one place.
WrongBlocks ==
  {On([Chain EXCEPT ![3].entries[2].hash = Other]),
   On([Chain EXCEPT ![1].hash = Other]),
   On([Chain EXCEPT ![1].entries = <<>>]),
   On([Chain EXCEPT ![3].signatures = Restrict(@, {0})]),
   On([Chain EXCEPT ![3].entry_count = 0, ![4].entry_count = 2]),
   [On([Chain EXCEPT ![3].entries = <<@[1], @[3]>>, ![3].entry_count = 0]) EXCEPT !.settings = Structural],
   On([Chain EXCEPT ![3].entries[3].starting_transaction_index = 1]),
   On([Chain EXCEPT ![3].executed = 3])}

\* Blocks that are no stream of ticks of their era, or only an unusual one.
WrongLayouts ==
  {On(Odd(3, <<<<1, 2>>, <<1, 0>>>>)),
   On(Odd(1, <<<<0, 1>>, <<2, 0>>>>)),
   On(Odd(1, <<<<2, 0>>, <<1, 1>>>>)),
   On(Odd(1, <<<<2, 1>>, <<1, 0>>>>)),
   On(Odd(3, <<<<2, 0>>, <<1, 2>>, <<2, 0>>>>))}
  \cup {[On(Odd(1, l)) EXCEPT !.eras = <<<<0, 0>>, <<3, 2>>>>] :
          l \in {<<<<2, 1>>, <<3, 0>>>>, <<<<4, 1>>, <<1, 0>>>>}}

\* A block that says something impossible about its parent, or whose parent is gone.
WrongChains ==
  {[On([Alpenglow EXCEPT ![3].parent = 3]) EXCEPT !.boundary = {<<1>>}],
   On([Chain EXCEPT ![0].parent = 1]),
   On(Without({0})), On(Without({1})), On(Without({3})), On(Without({4})), On(Without({0, 1, 3, 4})),
   [On([Chain EXCEPT ![4] = BlockOf(4, 1, Chain[1].hash, <<<<2, 0>>, <<2, 0>>, <<2, 0>>>>)])
     EXCEPT !.window_slots = 3],
   [On([Chain EXCEPT ![3].parent_hash = Other]) EXCEPT !.settings = Structural]}

\* Other ranges, windows and budgets, on a sound chain and one with two failures.
Ranges ==
  {[Job EXCEPT !.window_slots = n] : n \in {1, 3, 9}}
  \cup {[Job EXCEPT !.start = r[1], !.end = r[2], !.window_slots = 1] : r \in {<<1, 2>>, <<3, 3>>, <<2, 2>>, <<3, 6>>}}
  \cup {[On([Chain EXCEPT ![1].hash = Other]) EXCEPT !.max_failures = 1, !.window_slots = n] : n \in {1, 3}}
  \cup {[Job EXCEPT !.resume = FALSE, !.checkpoint = FALSE]}

\* Pins, duplicates with and without a block, a change of mode between two starts.
Audits ==
  {[Job EXCEPT !.settings = Settings("full", 3 :> Chain[3].hash @@ 1 :> a, <<g>>, FALSE)] :
     a \in {Chain[1].hash, Other}, g \in {Genesis, Other}}
  \cup {[Job EXCEPT !.settings = Settings("full", s :> Chain[4].hash, <<>>, FALSE)] : s \in {2, 4}}
  \cup {[Job EXCEPT !.conflicts = {c}, !.settings = Settings("structural", NoAnchors, <<>>, audit)] :
          c \in {2, 3}, audit \in BOOLEAN}
  \cup {[Job EXCEPT !.settings = Full \cup Structural]}

\* Live ranges whose tip moves between two starts, and the boundary of the eras.
Live ==
  {[Job EXCEPT !.full = TRUE, !.tip = t, !.window_slots = n] : t \in {0, 1, 3}, n \in {1, 2}}
  \cup {[On(Without({0})) EXCEPT !.full = TRUE, !.tip = 3]}
  \cup {[On(Alpenglow) EXCEPT !.boundary = b, !.window_slots = n] :
          b \in {{<<1>>}, {<<>>, <<1>>}}, n \in {1, 2}}
  \cup {[On(Alpenglow) EXCEPT !.boundary = {<<>>, <<1>>}, !.full = TRUE, !.tip = 1]}
  \cup {[On(ChainOf([Layouts EXCEPT ![3] = <<<<1, 0>>, <<1, 0>>>>, ![4] = <<<<1, 0>>>>]))
           EXCEPT !.eras = <<<<0, 2>>, <<3, 1>>>>]}
  \cup {[On([Alpenglow EXCEPT ![4].entries[1].num_hashes = 2]) EXCEPT !.boundary = {<<1>>}]}

MCConfigs == WrongBlocks \cup WrongLayouts \cup WrongChains \cup Ranges \cup Audits \cup Live

\* An anchor at the skipped slot.
AnchorConfigs == {[Job EXCEPT !.settings = Settings("full", 2 :> Other, <<>>, FALSE)]}
=============================================================================
