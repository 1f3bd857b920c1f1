--------------------------- MODULE MCAddressReads ---------------------------
(***************************************************************************)
(* Instances of AddressReads: up to five rows in four slots, slot 3 with   *)
(* two of them.                                                            *)
(***************************************************************************)
EXTENDS AddressReads

MCLedger == {{<<4, 1>>}, {<<2, 1>>, <<3, 1>>}, {<<1, 1>>, <<2, 1>>, <<3, 1>>, <<3, 2>>, <<4, 1>>}}

Signed(kind, limit, level, order, before, until, signed, plain, full) ==
  [kind |-> kind, limit |-> limit, level |-> level, order |-> order, before |-> before,
   until |-> until, signed |-> signed, plain |-> plain, full |-> full, min |-> 0]

Gsfa(limit, level, before, until) ==
  Signed("signatures", limit, level, "desc", before, until,
         "position" \in {before.at, until.at}, TRUE, FALSE)

Tfa(limit, order, before, until, signed, plain, full) ==
  Signed("transactions", limit, "finalized", order, before, until, signed, plain, full)

Config(retain, cap, race, inline, queries) ==
  [retain |-> retain, cap |-> cap, disk |-> TRUE, head |-> TRUE, race |-> race, inline |-> inline,
   split |-> FALSE, queries |-> queries]

\* No cursor: the watermark, the race and the cap on an address.
Newest == Config(2, 2, TRUE, FALSE, {Gsfa(3, "finalized", NoBound, NoBound)})

Capped == Config(4, 1, TRUE, FALSE, {Gsfa(2, "finalized", NoBound, SlotBound(1))})

\* Cursors, resolved before or inside the page query.
Paged == {Config(3, 3, race, inline, {Gsfa(2, "finalized", PositionBound(<<3, 2>>), NoBound),
                                      Gsfa(2, "finalized", SlotBound(4), PositionBound(<<2, 1>>))}) :
          race \in BOOLEAN, inline \in {TRUE}}
         \cup {Config(3, 3, FALSE, FALSE, {Gsfa(2, "finalized", PositionBound(<<3, 2>>), SlotBound(1))})}

Transactional ==
  {Config(3, 2, TRUE, FALSE, {Tfa(2, "desc", NoBound, NoBound, FALSE, TRUE, TRUE),
                              Tfa(2, "desc", PositionBound(<<3, 2>>), SlotBound(1), TRUE, TRUE, FALSE)}),
   Config(3, 2, TRUE, FALSE, {Tfa(2, "asc", NoBound, PositionBound(<<2, 1>>), TRUE, TRUE, TRUE),
                              Tfa(2, "asc", SlotBound(4), SlotBound(1), FALSE, FALSE, FALSE)})}

Remote == [Config(2, 2, FALSE, FALSE, {[Gsfa(2, "processed", NoBound, NoBound) EXCEPT !.min = 2]}) EXCEPT !.disk = FALSE]

\* No head cache.
Headless ==
  {[c EXCEPT !.head = FALSE] :
     c \in {Config(2, 2, TRUE, TRUE, {Gsfa(2, "finalized", SlotBound(4), PositionBound(<<2, 1>>))}),
           Config(2, 2, FALSE, TRUE, {Gsfa(2, "finalized", PositionBound(<<3, 2>>), NoBound)})}}

Passing == {Newest, Capped, Remote} \cup Paged \cup Transactional \cup Headless

\* An until cursor one slot below the floor of the disk cache, with a later row in its slot;
\* an ascending page whose first rows the disk cache may drop before it is read.  Each of the
\* two violates OwedInFull by itself.
AtTheFloor ==
  {Config(2, 2, TRUE, FALSE, {Gsfa(2, "finalized", SlotBound(4), PositionBound(<<3, 1>>))}),
   Config(3, 2, TRUE, FALSE, {Tfa(2, "asc", SlotBound(4), SlotBound(1), FALSE, FALSE, FALSE)})}
=============================================================================
