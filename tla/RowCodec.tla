------------------------------ MODULE RowCodec ------------------------------
(***************************************************************************)
(* A transaction and its block on their way from the chain to a client:    *)
(* the ledger's record, the form in which a source hands it over (RPC JSON,*)
(* Bigtable's native types, the gRPC protobuf, Jetstreamer's firehose), the*)
(* row the ingestor writes or the record the head cache keeps, and the     *)
(* answer hydrated from it.                                                *)
(*                                                                         *)
(* An Option is a sequence of at most one value, the result of a fallible  *)
(* conversion is <<value>> or Fail.  Columns of a row that belong to one   *)
(* list are parallel sequences with a flag that says whether the list was  *)
(* recorded.  Keys, amounts and texts are opaque; an empty string is "".   *)
(***************************************************************************)
EXTENDS Naturals, Sequences, FiniteSets, SequencesExt, Functions

CONSTANTS
  Blocks,        \* blocks of the ledger considered
  Activation,    \* slot from which rewards carry basis points (SIMD-0291)
  EraSettings,   \* Jetstreamer's era settings considered
  MaxVersion     \* newest transaction version the Bigtable source accepts

VARIABLES
  block,     \* the block of the ledger
  rows,      \* rows of the transactions table at this slot
  metadata,  \* rows of the blocks_metadata table at this slot
  head,      \* records of the head cache, <<>> when it does not hold the block
  tried,     \* sources that delivered the block
  answer     \* the last answer: what was asked, of which tier, what came back

vars == <<block, rows, metadata, head, tried, answer>>

Fail == <<>>
OK(v) == <<v>>
None == <<>>
Memo == "memo"
Vote == "vote"

Col(s, f) == [i \in DOMAIN s |-> s[i][f]]

(* Columns of one list: all of a length, or all empty. *)
Columns(c) == DOMAIN c \ {"present"}
Even(c) == \A f, g \in Columns(c) : Len(c[f]) = Len(c[g])
Blank(c) == \A f \in Columns(c) : c[f] = <<>>

-----------------------------------------------------------------------------
(* Lists as columns. *)

convert_rpc_instructions(ixs) == [program |-> Col(ixs, "program"), data |-> Col(ixs, "data")]

convert_rpc_address_table_lookups(lookups) ==
  [key |-> Col(lookups, "key"), indexes |-> Col(lookups, "indexes")]

InnerColumns(present, groups) ==
  LET each(f) == [g \in DOMAIN groups |-> Col(groups[g].instructions, f)]
  IN [present |-> present, index |-> Col(groups, "index"), program |-> each("program"),
      data |-> each("data"), height |-> each("height")]

TokenColumns(present, balances, owners) ==
  [present |-> present, account |-> Col(balances, "account"), owner |-> owners]

RewardColumns(present, rewards) ==
  [present |-> present, key |-> Col(rewards, "key"), type |-> Col(rewards, "type"),
   percent |-> Col(rewards, "percent"), bps |-> Col(rewards, "bps")]

Text(style, type) == IF type = None THEN None ELSE <<<<style, type[1]>>>>

Named(style, rewards) ==
  [i \in DOMAIN rewards |-> [rewards[i] EXCEPT !.type = Text(style, rewards[i].type)]]

ReturnColumns(r) ==
  IF r = None THEN [present |-> FALSE, program |-> None, data |-> None]
  ELSE [present |-> TRUE, program |-> <<r[1].program>>, data |-> <<r[1].data>>]

(* The hash of a message depends on the message alone. *)
Hash(message) == <<"hash", message>>

is_simple_vote_transaction(tx) ==
  /\ tx.message.version = None
  /\ Len(tx.signatures) < 3
  /\ Len(tx.message.instructions) = 1
  /\ tx.message.instructions[1].program = Vote

(* The columns of a row that repeat the message. *)
MessageColumns(signatures, message) ==
  [signature |-> signatures[1], signatures |-> signatures, required |-> message.required,
   version |-> message.version, config |-> message.config, keys |-> message.keys,
   instructions |-> convert_rpc_instructions(message.instructions),
   lookups |-> convert_rpc_address_table_lookups(message.lookups),
   lookups_present |-> message.lookups # <<>>]

-----------------------------------------------------------------------------
(* RPC: the JSON of getBlock.  A field is present, null or left out. *)

Json(o, absent) == IF o = None THEN [tag |-> absent] ELSE [tag |-> "some", value |-> o[1]]

\* What a node answers (external): token owners and trailing fields are left
\* out when unknown, the other lists are null.
RpcMeta(meta) ==
  LET tokens(o) == Json(IF o = None THEN None ELSE
        <<[i \in DOMAIN o[1] |-> [o[1][i] EXCEPT !.owner =
            Json(IF @ = "" THEN None ELSE <<@>>, "skip")]]>>, "none")
  IN [meta EXCEPT !.inner = Json(@, "none"), !.logs = Json(@, "none"),
                  !.pre = tokens(@), !.post = tokens(@), !.rewards = Json(@, "none"),
                  !.loaded = Json(<<@>>, "skip"), !.return = Json(@, "skip"),
                  !.units = Json(@, "skip")]

option_serializer_to_option(v) == IF v.tag = "some" THEN <<v.value>> ELSE None

decode_option_serializer_pubkey(v) ==
  IF v.tag = "some" /\ v.value # "" THEN <<v.value>> ELSE None

convert_rpc_inner_instructions(v) ==
  IF v.tag = "some" THEN InnerColumns(TRUE, v.value) ELSE InnerColumns(FALSE, <<>>)

convert_rpc_log_messages(v) ==
  IF v.tag = "some" THEN [present |-> TRUE, messages |-> v.value]
  ELSE [present |-> FALSE, messages |-> <<>>]

convert_rpc_token_balances(v) ==
  IF v.tag = "some"
  THEN TokenColumns(TRUE, v.value,
         [i \in DOMAIN v.value |-> decode_option_serializer_pubkey(v.value[i].owner)])
  ELSE TokenColumns(FALSE, <<>>, <<>>)

convert_rpc_rewards(v) ==
  IF v.tag = "some" THEN RewardColumns(v.value # <<>>, Named("kebab", v.value))
  ELSE RewardColumns(FALSE, <<>>)

convert_rpc_loaded_addresses(v) == IF v.tag = "some" THEN v.value ELSE <<>>

convert_rpc_return_data(v) == ReturnColumns(option_serializer_to_option(v))

\* RpcMetaFields::missing
missing ==
  [ok |-> TRUE, err |-> None, fee |-> 0, balances |-> <<>>,
   inner |-> InnerColumns(FALSE, <<>>), logs |-> [present |-> FALSE, messages |-> <<>>],
   pre |-> TokenColumns(FALSE, <<>>, <<>>), post |-> TokenColumns(FALSE, <<>>, <<>>),
   rewards |-> RewardColumns(FALSE, <<>>), loaded |-> <<>>,
   return |-> ReturnColumns(None), units |-> None]

Encoded(style, err) == IF err = None THEN None ELSE <<<<style, err[1]>>>>

map_rpc_meta_fields(m) ==
  IF m = None THEN missing
  ELSE LET meta == m[1] IN
    [ok |-> meta.err = None, err |-> Encoded("json", meta.err), fee |-> meta.fee,
     balances |-> meta.balances, inner |-> convert_rpc_inner_instructions(meta.inner),
     logs |-> convert_rpc_log_messages(meta.logs),
     pre |-> convert_rpc_token_balances(meta.pre),
     post |-> convert_rpc_token_balances(meta.post),
     rewards |-> convert_rpc_rewards(meta.rewards),
     loaded |-> convert_rpc_loaded_addresses(meta.loaded),
     return |-> convert_rpc_return_data(meta.return),
     units |-> option_serializer_to_option(meta.units)]

map_rpc_transaction(slot, time, index, tx) ==
  LET meta == IF tx.meta = None THEN None ELSE <<RpcMeta(tx.meta[1])>> IN
  [slot |-> slot, slot_idx |-> index, time |-> time, hash |-> Hash(tx.message),
   is_vote |-> is_simple_vote_transaction(tx)]
  @@ MessageColumns(tx.signatures, tx.message) @@ map_rpc_meta_fields(meta)

map_rpc_transactions(b) ==
  [i \in DOMAIN b.txs |-> map_rpc_transaction(b.slot, b.time, i - 1, b.txs[i])]

BlockRow(b, rewards) ==
  [slot |-> b.slot, time |-> b.time, height |-> b.height, rewards |-> rewards,
   partitions |-> b.partitions]

convert_rpc_block_rewards(rewards) ==
  RewardColumns(rewards # <<>>, Named("kebab", rewards))

map_rpc_block_metadata(b) == BlockRow(b, convert_rpc_block_rewards(b.rewards))

-----------------------------------------------------------------------------
(* Bigtable: the ledger's own types; a transaction of the first epochs has no  *)
(* metadata, and an unknown key is an empty string.                            *)

decode_optional_pubkey(v) == IF v = "" THEN None ELSE <<v>>

convert_native_inner_instructions(o) ==
  IF o = None THEN InnerColumns(FALSE, <<>>) ELSE InnerColumns(TRUE, o[1])

\* Mutant: an absent list counts as a recorded empty one.
NativeTokensAlwaysPresent(o) ==
  LET list == IF o = None THEN <<>> ELSE o[1]
  IN TokenColumns(TRUE, list, [i \in DOMAIN list |-> decode_optional_pubkey(list[i].owner)])

convert_native_token_balances(o) ==
  IF o = None THEN TokenColumns(FALSE, <<>>, <<>>)
  ELSE TokenColumns(TRUE, o[1], [i \in DOMAIN o[1] |-> decode_optional_pubkey(o[1][i].owner)])

convert_native_rewards(o) ==
  IF o = None THEN RewardColumns(FALSE, <<>>)
  ELSE RewardColumns(o[1] # <<>>, Named("kebab", o[1]))

map_native_meta_fields(m) ==
  IF m = None THEN missing
  ELSE LET meta == m[1] IN
    [ok |-> meta.err = None, err |-> Encoded("json", meta.err), fee |-> meta.fee,
     balances |-> meta.balances, inner |-> convert_native_inner_instructions(meta.inner),
     logs |-> [present |-> meta.logs # None, messages |-> IF meta.logs = None THEN <<>> ELSE meta.logs[1]],
     pre |-> convert_native_token_balances(meta.pre),
     post |-> convert_native_token_balances(meta.post),
     rewards |-> convert_native_rewards(meta.rewards), loaded |-> meta.loaded,
     return |-> ReturnColumns(meta.return), units |-> meta.units]

map_versioned_transaction_with_meta(slot, time, index, tx) ==
  IF tx.message.version # None /\ tx.message.version[1] > MaxVersion THEN Fail
  ELSE OK([slot |-> slot, slot_idx |-> index, time |-> time, hash |-> Hash(tx.message),
           is_vote |-> is_simple_vote_transaction(tx)]
          @@ MessageColumns(tx.signatures, tx.message) @@ map_native_meta_fields(tx.meta))

\* One row that cannot be written fails the block.
map_bigtable_transactions(b) ==
  LET row == [i \in DOMAIN b.txs |->
                map_versioned_transaction_with_meta(b.slot, b.time, i - 1, b.txs[i])]
  IN IF \E i \in DOMAIN row : row[i] = Fail THEN Fail
     ELSE OK([i \in DOMAIN row |-> row[i][1]])

map_bigtable_block_metadata(b) == BlockRow(b, convert_rpc_block_rewards(b.rewards))

-----------------------------------------------------------------------------
(* gRPC: the protobuf of a block update.  Token balances and rewards lose their *)
(* optionality, the other lists keep it in a flag; numbers of a reward are text. *)

Dec(o) == IF o = None THEN <<>> ELSE <<"dec", o[1]>>

\* What the validator's plugin sends (external).
ProtoRewards(rewards) ==
  [i \in DOMAIN rewards |->
     [key |-> rewards[i].key, percent |-> Dec(rewards[i].percent), bps |-> Dec(rewards[i].bps),
      type |-> IF rewards[i].type = None THEN "unspecified" ELSE rewards[i].type[1]]]

\* A transaction in a block update (external).
Proto(tx, index) ==
  LET list(o) == IF o = None THEN <<>> ELSE o[1]
      meta(m) == [err |-> m.err, fee |-> m.fee, balances |-> m.balances,
                  inner |-> list(m.inner), inner_none |-> m.inner = None,
                  logs |-> list(m.logs), logs_none |-> m.logs = None,
                  pre |-> list(m.pre), post |-> list(m.post),
                  rewards |-> ProtoRewards(list(m.rewards)), loaded |-> m.loaded,
                  return |-> m.return, return_none |-> m.return = None, units |-> m.units]
  IN [index |-> index, signatures |-> tx.signatures,
      is_vote |-> is_simple_vote_transaction(tx),
      versioned |-> tx.message.version # None,
      config |-> IF tx.message.version = <<1>> THEN <<tx.message.config>> ELSE None,
      message |-> tx.message,
      meta |-> IF tx.meta = None THEN None ELSE <<meta(tx.meta[1])>>]

create_versioned_message(p) ==
  LET message(version, config) == [p.message EXCEPT !.version = version, !.config = config]
  IN CASE p.config # None -> message(<<1>>, p.config[1])
       [] p.config = None /\ p.versioned -> message(<<0>>, <<>>)
       [] p.config = None /\ ~p.versioned -> [message(None, <<>>) EXCEPT !.lookups = <<>>]

compute_message_hash(p) == Hash(create_versioned_message(p))

reward_type_to_string(type) == IF type = "unspecified" THEN None ELSE <<<<"camel", type>>>>

\* parse_commission (u8) and parse_commission_bps (u16)
parse_commission(text, largest) ==
  IF text = <<>> \/ text[2] > largest THEN None ELSE <<text[2]>>

convert_rewards(rewards) ==
  RewardColumns(TRUE, [i \in DOMAIN rewards |->
    [key |-> rewards[i].key, type |-> reward_type_to_string(rewards[i].type),
     percent |-> parse_commission(rewards[i].percent, 255),
     bps |-> parse_commission(rewards[i].bps, 65535)]])

optional_pubkey(v) == IF v = "" THEN None ELSE <<v>>

convert_inner_instructions(m) ==
  IF m.inner_none THEN InnerColumns(FALSE, <<>>) ELSE InnerColumns(TRUE, m.inner)

\* An empty list counts as recorded.
convert_token_balances(list) ==
  TokenColumns(TRUE, list, [i \in DOMAIN list |-> optional_pubkey(list[i].owner)])

convert_return_data(m) == ReturnColumns(IF m.return_none THEN None ELSE m.return)

\* An error this build cannot decode is kept as quoted hex.
decode_transaction_error(err) ==
  CASE err = None -> None
    [] err = <<"new">> -> <<<<"quoted", "hex">>>>
    [] OTHER -> <<<<"json", err[1]>>>>

StreamMetaColumns(m) ==
  [ok |-> m.err = None, err |-> decode_transaction_error(m.err), fee |-> m.fee,
   balances |-> m.balances, inner |-> convert_inner_instructions(m),
   logs |-> IF m.logs_none THEN [present |-> FALSE, messages |-> <<>>]
            ELSE [present |-> TRUE, messages |-> m.logs],
   pre |-> convert_token_balances(m.pre), post |-> convert_token_balances(m.post),
   rewards |-> convert_rewards(m.rewards), loaded |-> m.loaded,
   return |-> convert_return_data(m), units |-> m.units]

map_transaction(slot, time, p) ==
  IF p.meta = None \/ (p.config # None /\ p.message.lookups # <<>>) THEN Fail
  ELSE OK([slot |-> slot, slot_idx |-> p.index, time |-> time,
           hash |-> compute_message_hash(p), is_vote |-> p.is_vote]
          @@ MessageColumns(p.signatures,
               [create_versioned_message(p) EXCEPT !.lookups = p.message.lookups])
          @@ StreamMetaColumns(p.meta[1]))

\* Mutant: a transaction's position in the update is taken for its index.
MapByPosition(b, update) ==
  LET row == [i \in DOMAIN update |-> map_transaction(b.slot, b.time, [update[i] EXCEPT !.index = i - 1])]
  IN IF \E i \in DOMAIN row : row[i] = Fail THEN Fail
     ELSE OK([i \in DOMAIN row |-> row[i][1]])

map_transactions(b, update) ==
  LET row == [i \in DOMAIN update |-> map_transaction(b.slot, b.time, update[i])]
  IN IF \E i \in DOMAIN row : row[i] = Fail THEN Fail
     ELSE OK([i \in DOMAIN row |-> row[i][1]])

map_block_metadata(b) ==
  LET columns == convert_rewards(ProtoRewards(b.rewards))
  IN BlockRow(b, [columns EXCEPT !.present = b.rewards # <<>>])

-----------------------------------------------------------------------------
(* The head cache keeps the record of a live transaction: the stream's columns *)
(* without the hash, the block time taken from the slot.                       *)

head_inner_instructions(m) ==
  IF m.inner_none THEN InnerColumns(FALSE, <<>>) ELSE InnerColumns(TRUE, m.inner)

head_token_balances(list) ==
  TokenColumns(TRUE, list, [i \in DOMAIN list |->
    IF list[i].owner = "" THEN None ELSE <<list[i].owner>>])

head_rewards(rewards) ==
  RewardColumns(TRUE, [i \in DOMAIN rewards |->
    [key |-> rewards[i].key,
     type |-> IF rewards[i].type = "unspecified" THEN None ELSE <<<<"camel", rewards[i].type>>>>,
     percent |-> parse_commission(rewards[i].percent, 255),
     bps |-> parse_commission(rewards[i].bps, 65535)]])

head_transaction_error(err) ==
  CASE err = None -> None
    [] err = <<"new">> -> <<<<"quoted", "hex">>>>
    [] OTHER -> <<<<"json", err[1]>>>>

HeadMetaColumns(m) ==
  [ok |-> m.err = None, err |-> head_transaction_error(m.err), fee |-> m.fee,
   balances |-> m.balances, inner |-> head_inner_instructions(m),
   logs |-> [present |-> ~m.logs_none, messages |-> IF m.logs_none THEN <<>> ELSE m.logs],
   pre |-> head_token_balances(m.pre), post |-> head_token_balances(m.post),
   rewards |-> head_rewards(m.rewards), loaded |-> m.loaded,
   return |-> ReturnColumns(IF m.return_none THEN None ELSE m.return), units |-> m.units]

stored_record_from_transaction_info(slot, p) ==
  IF p.meta = None \/ (p.config # None /\ p.message.lookups # <<>>) THEN Fail
  ELSE OK([slot |-> slot, slot_idx |-> p.index, time |-> None, is_vote |-> p.is_vote]
          @@ MessageColumns(p.signatures,
               [p.message EXCEPT !.config = IF p.config = None THEN <<>> ELSE p.config[1],
                  !.version = IF p.config # None THEN <<1>>
                              ELSE IF p.versioned THEN <<0>> ELSE None])
          @@ HeadMetaColumns(p.meta[1]))

\* A commission that is no number of its width drops the block's metadata.
parse_block_rewards(rewards) ==
  LET wide(text, largest) == text # <<>> /\ parse_commission(text, largest) = None
  IN IF \E i \in DOMAIN rewards : wide(rewards[i].percent, 255) \/ wide(rewards[i].bps, 65535) THEN Fail
     ELSE OK(RewardColumns(TRUE, [i \in DOMAIN rewards |->
            [key |-> rewards[i].key, type |-> reward_type_to_string(rewards[i].type),
             percent |-> parse_commission(rewards[i].percent, 255),
             bps |-> parse_commission(rewards[i].bps, 65535)]]))

parse_block_meta(b) ==
  LET rewards == parse_block_rewards(ProtoRewards(b.rewards))
  IN IF rewards = Fail THEN Fail ELSE OK(BlockRow(b, rewards[1]))

-----------------------------------------------------------------------------
(* Jetstreamer: native types again, but an error is kept as its display text,  *)
(* a transaction gets its block time when the block arrives, and the firehose  *)
(* turns every block commission into basis points.                             *)

parse_pubkey_bytes(v) == IF v = "" THEN None ELSE <<v>>

map_inner_instructions(o) == InnerColumns(o # None, IF o = None THEN <<>> ELSE o[1])

map_token_balances(o) ==
  LET list == IF o = None THEN <<>> ELSE o[1]
  IN TokenColumns(o # None, list, [i \in DOMAIN list |-> parse_pubkey_bytes(list[i].owner)])

map_rewards(o) == RewardColumns(o # None, IF o = None THEN <<>> ELSE Named("kebab", o[1]))

from_transaction(slot, time, index, tx) ==
  LET meta == tx.meta[1] IN
  [slot |-> slot, slot_idx |-> index, time |-> time, hash |-> Hash(tx.message),
   is_vote |-> is_simple_vote_transaction(tx)]
  @@ MessageColumns(tx.signatures, tx.message)
  @@ [ok |-> meta.err = None, err |-> Encoded("display", meta.err), fee |-> meta.fee,
      balances |-> meta.balances, inner |-> map_inner_instructions(meta.inner),
      logs |-> [present |-> meta.logs # None,
                messages |-> IF meta.logs = None THEN <<>> ELSE meta.logs[1]],
      pre |-> map_token_balances(meta.pre), post |-> map_token_balances(meta.post),
      rewards |-> map_rewards(meta.rewards), loaded |-> meta.loaded,
      return |-> ReturnColumns(meta.return), units |-> meta.units]

\* The firehose (external): percent becomes hundredths of it.
Normalized(reward) ==
  IF reward.percent # None THEN <<100 * reward.percent[1]>> ELSE reward.bps

block_reward_commission(era, slot, bps) ==
  LET historical == era.percent \/ slot < era.bps_from[1]
  IN CASE bps = None -> OK([percent |-> None, bps |-> None])
       [] bps # None /\ era.percent = (era.bps_from # None) -> Fail
       [] bps # None /\ era.percent # (era.bps_from # None) ->
            CASE historical /\ (bps[1] > 10000 \/ bps[1] % 100 # 0) -> Fail
              [] historical /\ bps[1] <= 10000 /\ bps[1] % 100 = 0 ->
                   OK([percent |-> <<bps[1] \div 100>>, bps |-> None])
              [] ~historical -> OK([percent |-> None, bps |-> bps])

from_block(b, era) ==
  LET commission == [i \in DOMAIN b.rewards |->
        block_reward_commission(era, b.slot, Normalized(b.rewards[i]))]
      rewards == [i \in DOMAIN b.rewards |->
        [key |-> b.rewards[i].key, type |-> Text("kebab", b.rewards[i].type),
         percent |-> commission[i][1].percent, bps |-> commission[i][1].bps]]
  IN IF \E i \in DOMAIN commission : commission[i] = Fail THEN Fail
     ELSE OK(BlockRow(b, RewardColumns(rewards # <<>> \/ b.partitions # None, rewards)))

-----------------------------------------------------------------------------
(* Rows as records of the RPC server.  *)

TransactionColumns ==
  {"signature", "slot", "slot_idx", "time", "is_vote", "version", "config", "signatures",
   "required", "keys", "instructions", "lookups", "lookups_present", "ok", "err", "fee",
   "balances", "inner", "logs", "pre", "post", "rewards", "loaded", "return", "units"}

FullColumns == TransactionColumns \ {"signature", "slot", "time"}

AccountsColumns == FullColumns \ {"slot_idx", "is_vote", "config", "lookups",
                                  "lookups_present", "inner", "logs", "return", "units"}

map_transaction_row(row) == Restrict(row, TransactionColumns)

map_block_full_transaction_row(row, slot) ==
  Restrict(row, FullColumns)
  @@ [signature |-> row.signatures[1], slot |-> slot, time |-> None]

map_block_accounts_transaction_row(row) ==
  [Restrict(row, AccountsColumns) EXCEPT !.instructions = [program |-> @.program]]

\* From<StoredTransactionRecord>: the head's record, narrowed to accounts.
AccountsRecord(record) ==
  [Restrict(record, AccountsColumns) EXCEPT !.instructions = [program |-> @.program]]

map_block_metadata_row(row) == row

map_block_metadata_base_row(row) == [row EXCEPT !.rewards = RewardColumns(FALSE, <<>>)]

-----------------------------------------------------------------------------
(* Metadata of a transaction. *)

\* A list is absent, or its columns agree; columns without the flag are an error.
Listed(columns, built) ==
  CASE columns.present /\ built = Fail -> Fail
    [] columns.present /\ built # Fail -> OK(built)
    [] ~columns.present /\ Blank(columns) -> OK(None)
    [] ~columns.present /\ ~Blank(columns) -> Fail

build_inner_instructions(c) ==
  IF ~Even(c) \/ \E g \in DOMAIN c.index : \/ Len(c.program[g]) # Len(c.data[g])
                                           \/ Len(c.program[g]) # Len(c.height[g])
  THEN Fail
  ELSE OK([g \in DOMAIN c.index |->
             [index |-> c.index[g],
              instructions |-> [i \in DOMAIN c.program[g] |->
                [program |-> c.program[g][i], data |-> c.data[g][i], height |-> c.height[g][i]]]]])

build_token_balances(c) ==
  IF ~Even(c) THEN Fail
  ELSE OK([i \in DOMAIN c.account |->
             [account |-> c.account[i], owner |-> IF c.owner[i] = None THEN "" ELSE c.owner[i][1]]])

\* Both spellings of a type name are read.
parse_reward_type(type) == IF type = None THEN None ELSE <<type[1][2]>>

\* Rows older than the basis points column have none.
build_rewards_from_fields(c) ==
  IF ~Even([c EXCEPT !.bps = IF @ = <<>> THEN c.key ELSE @]) THEN Fail
  ELSE OK([i \in DOMAIN c.key |->
             [key |-> c.key[i], type |-> parse_reward_type(c.type[i]), percent |-> c.percent[i],
              bps |-> IF c.bps = <<>> THEN None ELSE c.bps[i]]])

build_return_data(c) ==
  CASE c.present /\ c.program # None /\ c.data # None ->
         OK(<<[program |-> c.program[1], data |-> c.data[1]]>>)
    [] ~c.present /\ c.program = None /\ c.data = None -> OK(None)
    [] OTHER -> Fail

parse_instruction_error_display(text) == IF text = "instruction" THEN <<text>> ELSE None

parse_transaction_error_display(text) ==
  IF text = "transaction" THEN <<text>> ELSE parse_instruction_error_display(text)

\* JSON, a quoted display text, or a bare one; anything else fails the read.
parse_transaction_error(err) ==
  CASE err = None -> Fail
    [] err # None /\ err[1][1] = "json" -> OK(err[1][2])
    [] err # None /\ err[1][1] # "json" -> parse_transaction_error_display(err[1][2])

Status(record) ==
  CASE record.ok /\ record.err = None -> OK(None)
    [] record.ok /\ record.err # None -> Fail
    [] ~record.ok -> LET e == parse_transaction_error(record.err)
                     IN IF e = Fail THEN Fail ELSE OK(e)

Untouched(record, lists) ==
  /\ record.ok /\ record.err = None /\ record.fee = 0 /\ record.balances = <<>>
  /\ record.loaded = <<>>
  /\ \A l \in lists : ~record[l].present /\ Blank(record[l])

meta_is_missing(record) ==
  /\ Untouched(record, {"inner", "logs", "pre", "post", "rewards"})
  /\ record.return = ReturnColumns(None) /\ record.units = None

accounts_meta_is_missing(record) == Untouched(record, {"pre", "post", "rewards"})

\* Fail, OK(None) for a transaction without metadata, or OK(<<meta>>).
build_transaction_status_meta(record) ==
  LET status  == Status(record)
      inner   == Listed(record.inner, build_inner_instructions(record.inner))
      logs    == Listed(record.logs, OK(record.logs.messages))
      pre     == Listed(record.pre, build_token_balances(record.pre))
      post    == Listed(record.post, build_token_balances(record.post))
      rewards == Listed(record.rewards, build_rewards_from_fields(record.rewards))
      return  == build_return_data(record.return)
  IN CASE meta_is_missing(record) -> OK(None)
       [] ~meta_is_missing(record)
          /\ (status = Fail \/ inner = Fail \/ logs = Fail \/ pre = Fail \/ post = Fail
              \/ rewards = Fail \/ return = Fail) -> Fail
       [] OTHER -> OK(<<[err |-> status[1], fee |-> record.fee, balances |-> record.balances,
                         inner |-> inner[1], logs |-> logs[1], pre |-> pre[1], post |-> post[1],
                         rewards |-> IF rewards[1] = None THEN <<<<>>>> ELSE rewards[1],
                         loaded |-> record.loaded, return |-> return[1],
                         units |-> record.units]>>)

build_transaction_status_meta_for_accounts(record) ==
  LET status  == Status(record)
      pre     == Listed(record.pre, build_token_balances(record.pre))
      post    == Listed(record.post, build_token_balances(record.post))
      rewards == Listed(record.rewards, build_rewards_from_fields(record.rewards))
  IN CASE accounts_meta_is_missing(record) -> OK(None)
       [] ~accounts_meta_is_missing(record)
          /\ (status = Fail \/ pre = Fail \/ post = Fail \/ rewards = Fail) -> Fail
       [] OTHER -> OK(<<[err |-> status[1], fee |-> record.fee, balances |-> record.balances,
                         inner |-> None, logs |-> None, pre |-> pre[1], post |-> post[1],
                         rewards |-> IF rewards[1] = None THEN <<<<>>>> ELSE rewards[1],
                         loaded |-> record.loaded, return |-> None, units |-> None]>>)

-----------------------------------------------------------------------------
(* The transaction itself. *)

build_compiled_instructions(c) ==
  IF ~Even(c) THEN Fail
  ELSE OK([i \in DOMAIN c.program |-> [program |-> c.program[i], data |-> c.data[i]]])

build_address_table_lookups(c) ==
  IF ~Even(c) THEN Fail
  ELSE OK([i \in DOMAIN c.key |-> [key |-> c.key[i], indexes |-> c.indexes[i]]])

Signed(record) ==
  /\ Len(record.signatures) = record.required
  /\ Len(record.keys) >= record.required

Unlooked(record) == ~record.lookups_present /\ Blank(record.lookups)

Built(record, config, instructions, lookups) ==
  OK([signatures |-> record.signatures,
      message |-> [version |-> record.version, config |-> config, required |-> record.required,
                   keys |-> record.keys, instructions |-> instructions, lookups |-> lookups]])

\* Only version 0 has lookups, only version 1 a configuration.
build_versioned_transaction(record) ==
  LET instructions == build_compiled_instructions(record.instructions)
      lookups == build_address_table_lookups(record.lookups)
  IN CASE ~Signed(record) \/ instructions = Fail -> Fail
       [] Signed(record) /\ instructions # Fail /\ record.version = <<0>> ->
            IF lookups = Fail THEN Fail ELSE Built(record, <<>>, instructions[1], lookups[1])
       [] OTHER -> IF ~Unlooked(record) \/ record.version \notin {None, <<1>>} THEN Fail
                   ELSE Built(record, IF record.version = None THEN <<>> ELSE record.config,
                              instructions[1], <<>>)

build_legacy_transaction(record) ==
  LET instructions == build_compiled_instructions(record.instructions)
  IN IF record.version # None \/ ~Unlooked(record) \/ ~Signed(record) \/ instructions = Fail
     THEN Fail ELSE Built(record, <<>>, instructions[1], <<>>)

build_accounts_compiled_instructions(programs) ==
  [i \in DOMAIN programs |-> [program |-> programs[i], data |-> ""]]

build_accounts_versioned_transaction(record) ==
  IF ~Signed(record) \/ (record.version = None /\ record.loaded # <<>>) THEN Fail
  ELSE Built(record, <<>>, build_accounts_compiled_instructions(record.instructions.program), <<>>)

build_accounts_legacy_transaction(record) ==
  IF record.version # None \/ record.loaded # <<>> \/ ~Signed(record) THEN Fail
  ELSE Built(record, <<>>, build_accounts_compiled_instructions(record.instructions.program), <<>>)

WithMeta(tx, meta) == IF tx = Fail THEN Fail ELSE OK(tx[1] @@ [meta |-> meta])

hydrate_full_transaction(record) ==
  LET meta == build_transaction_status_meta(record)
  IN CASE meta = Fail -> Fail
       [] meta = OK(None) -> WithMeta(build_legacy_transaction(record), None)
       [] OTHER -> WithMeta(build_versioned_transaction(record), meta[1])

hydrate_accounts_transaction(record) ==
  LET meta == build_transaction_status_meta_for_accounts(record)
  IN CASE meta = Fail -> Fail
       [] meta = OK(None) -> WithMeta(build_accounts_legacy_transaction(record), None)
       [] OTHER -> WithMeta(build_accounts_versioned_transaction(record), meta[1])

\* A stored time of zero stands for none.
NonZero(time) == IF time = <<0>> THEN None ELSE time

hydrate_transaction_record(record) ==
  LET tx == hydrate_full_transaction(record)
  IN IF tx = Fail THEN Fail
     ELSE OK(tx[1] @@ [slot |-> record.slot, index |-> record.slot_idx,
                       time |-> NonZero(record.time)])

-----------------------------------------------------------------------------
(* The block around it. *)

build_block_rewards(row) ==
  LET rewards == Listed(row.rewards, build_rewards_from_fields(row.rewards))
  IN CASE rewards = Fail -> Fail
       [] rewards = OK(None) -> OK(<<>>)
       [] OTHER -> rewards[1]

block_template(row, rewards, txs) ==
  [slot |-> row.slot, time |-> NonZero(row.time), rewards |-> rewards, txs |-> txs,
   partitions |-> row.partitions,
   height |-> IF row.height = <<0>> /\ row.slot # 0 THEN None ELSE row.height]

\* A transaction that cannot be built fails the block.
EncodedBlock(row, show, txs) ==
  LET rewards == IF show THEN build_block_rewards(row) ELSE OK(<<>>)
  IN IF rewards = Fail \/ \E i \in DOMAIN txs : txs[i] = Fail THEN Fail
     ELSE OK(block_template(row, IF show THEN rewards ELSE None,
                            [i \in DOMAIN txs |-> txs[i][1]]))

-----------------------------------------------------------------------------
(* Memos and errors in the address tables and in the head cache.  A memo is the  *)
(* data of a memo instruction, kept as its text split at "; "; a part counts as  *)
(* prefixed when it reads "[n] x".                                               *)

Prefixed == {"[1] a"}
Empty == <<"">>

MemoTexts(instructions) ==
  LET memos == SelectSeq([i \in DOMAIN instructions.program |->
                 <<instructions.program[i], instructions.data[i]>>], LAMBDA ix : ix[1] = Memo)
  IN [i \in DOMAIN memos |-> memos[i][2]]

\* The memo column of the materialized views (external).
RawMemo(row) ==
  LET texts == MemoTexts(row.instructions)
  IN IF texts = <<>> \/ texts = <<Empty>> THEN None ELSE <<FlattenSeq(texts)>>

Prefix(text) == <<"prefix", text>>

memo_has_length_prefix(part) == part \in Prefixed

format_gsfa_memo(memo) ==
  IF memo = None THEN None
  ELSE <<FlattenSeq([i \in DOMAIN memo[1] |->
           IF memo_has_length_prefix(memo[1][i]) THEN <<<<"part", memo[1][i]>>>>
           ELSE <<Prefix(<<memo[1][i]>>), <<"part", memo[1][i]>>>>])>>

extract_memo(record) ==
  LET texts == SelectSeq(MemoTexts(record.instructions), LAMBDA t : t # Empty)
      rendered(t) == <<Prefix(t)>> \o [i \in DOMAIN t |-> <<"part", t[i]>>]
  IN IF texts = <<>> THEN None ELSE <<FlattenSeq([i \in DOMAIN texts |-> rendered(texts[i])])>>

\* Text that is neither JSON nor a display text is passed on as it is.
parse_err_json(err) ==
  CASE err = None -> None
    [] err # None /\ err[1][1] = "json" -> <<err[1]>>
    [] err # None /\ err[1][1] # "json" ->
         LET parsed == parse_transaction_error_display(err[1][2])
         IN IF parsed # None THEN <<<<"json", parsed[1]>>>> ELSE <<<<"text", err[1][2]>>>>

\* The head parses the text as JSON and nothing else.
HeadErr(err) ==
  CASE err = None -> None
    [] err # None /\ err[1][1] = "json" -> <<err[1]>>
    [] err # None /\ err[1][1] = "quoted" -> <<<<"text", err[1][2]>>>>

-----------------------------------------------------------------------------
(* Sources.  A stream delivers new transactions, whose balances are recorded;  *)
(* the libraries of the others refuse an error they do not know.               *)

Live == \A i \in DOMAIN block.txs : LET m == block.txs[i].meta
                                    IN m # None /\ m[1].pre # None /\ m[1].post # None
Decodable == \A i \in DOMAIN block.txs :
               block.txs[i].meta # None => block.txs[i].meta[1].err # <<"new">>

Store(source, written, row) ==
  /\ source \notin tried
  /\ tried' = tried \cup {source}
  /\ IF written = Fail \/ row = Fail THEN UNCHANGED <<rows, metadata>>
     ELSE rows' = rows \cup Range(written[1]) /\ metadata' = metadata \cup {row[1]}
  /\ UNCHANGED <<block, head, answer>>

IngestRpc ==
  Decodable /\ Store("rpc", OK(map_rpc_transactions(block)), OK(map_rpc_block_metadata(block)))

IngestBigtable ==
  Decodable /\ Store("bigtable", map_bigtable_transactions(block), OK(map_bigtable_block_metadata(block)))

\* The update carries each transaction's index; their order is not relied on.
IngestGrpc ==
  /\ Live
  /\ LET sent == [i \in DOMAIN block.txs |-> Proto(block.txs[i], i - 1)]
     IN \E update \in {sent, Reverse(sent)} :
          Store("grpc", map_transactions(block, update), OK(map_block_metadata(block)))

\* The operator vouches for the setting: percent only before the activation.
IngestJetstreamer ==
  /\ Decodable /\ \A i \in DOMAIN block.txs : block.txs[i].meta # None
  /\ \E era \in EraSettings :
       /\ era.percent => block.slot < Activation
       /\ Store("jetstreamer",
                OK([i \in DOMAIN block.txs |-> from_transaction(block.slot, block.time, i - 1, block.txs[i])]),
                from_block(block, era))

HeadInsert ==
  /\ Live /\ head = <<>>
  /\ LET record == [i \in DOMAIN block.txs |->
           stored_record_from_transaction_info(block.slot, Proto(block.txs[i], i - 1))]
     IN /\ \A i \in DOMAIN record : record[i] # Fail
        /\ parse_block_meta(block) # Fail
        /\ head' = <<[records |-> [i \in DOMAIN record |-> [record[i][1] EXCEPT !.time = block.time]],
                      metadata |-> parse_block_meta(block)[1]]>>
  /\ UNCHANGED <<block, rows, metadata, tried, answer>>

HeadEvict == head # <<>> /\ head' = <<>> /\ UNCHANGED <<block, rows, metadata, tried, answer>>

-----------------------------------------------------------------------------
(* Reads.  A key held twice answers from either row until the parts merge. *)

Answered(view, index, show, value) ==
  /\ answer' = [view |-> view, index |-> index, show |-> show, value |-> value]
  /\ UNCHANGED <<block, rows, metadata, head, tried>>

ReadTransaction(i) ==
  LET mine(r) == r.signature = block.txs[i].signatures[1] IN
  \/ \E row \in rows : mine(row) /\ Answered("transaction", i, TRUE, hydrate_transaction_record(map_transaction_row(row)))
  \/ \E h \in Range(head) : \E r \in Range(h.records) :
       mine(r) /\ Answered("transaction", i, TRUE, hydrate_transaction_record(r))

\* The row of an address table, or the head's entry.
ReadStatus(i) ==
  LET mine(r) == r.signature = block.txs[i].signatures[1] IN
  \/ \E row \in rows : mine(row) /\
       Answered("status", i, TRUE,
         OK([err |-> parse_err_json(IF row.ok THEN None ELSE row.err),
             memo |-> format_gsfa_memo(RawMemo(row))]))
  \/ \E h \in Range(head) : \E r \in Range(h.records) : mine(r) /\
       Answered("status", i, TRUE, OK([err |-> HeadErr(r.err), memo |-> extract_memo(r)]))

\* One row a signature, the lowest position first.
BlockRows ==
  LET signatures == {r.signature : r \in rows}
      first(s) == {r \in rows : r.signature = s /\ \A q \in rows : q.signature = s => r.slot_idx <= q.slot_idx}
  IN {SetToSortSeq(Range(pick), LAMBDA a, b : a.slot_idx < b.slot_idx) :
        pick \in {f \in [signatures -> rows] : \A s \in signatures : f[s] \in first(s)}}

\* The encoder leaves rewards out unless asked for them (external).
Shown(tx, show) ==
  IF tx = Fail \/ show \/ tx[1].meta = None THEN tx
  ELSE OK([tx[1] EXCEPT !.meta = <<[@[1] EXCEPT !.rewards = <<<<>>>>]>>])

ReadStoredBlock(view, show) ==
  \E row \in metadata : \E list \in BlockRows :
    LET record == IF show THEN map_block_metadata_row(row) ELSE map_block_metadata_base_row(row)
        txs == CASE view = "full" -> [i \in DOMAIN list |->
                      Shown(hydrate_full_transaction(map_block_full_transaction_row(list[i], row.slot)), show)]
                 [] view = "accounts" -> [i \in DOMAIN list |->
                      Shown(hydrate_accounts_transaction(map_block_accounts_transaction_row(list[i])), show)]
                 [] view = "signatures" -> [i \in DOMAIN list |-> OK(list[i].signature)]
                 [] view = "none" -> <<>>
    IN Answered(view, 0, show, EncodedBlock(record, show, txs))

ReadHeadBlock(view, show) ==
  \E h \in Range(head) :
    LET list == h.records
        txs == CASE view = "full" -> [i \in DOMAIN list |-> Shown(hydrate_full_transaction(list[i]), show)]
                 [] view = "accounts" -> [i \in DOMAIN list |->
                      Shown(hydrate_accounts_transaction(AccountsRecord(list[i])), show)]
                 [] view = "signatures" -> [i \in DOMAIN list |-> OK(list[i].signatures[1])]
                 [] view = "none" -> <<>>
    IN Answered(view, 0, show, EncodedBlock(h.metadata, show, txs))

Init ==
  /\ block \in Blocks
  /\ rows = {} /\ metadata = {} /\ head = <<>> /\ tried = {}
  /\ answer = [view |-> "nothing", index |-> 0, show |-> FALSE, value |-> Fail]

Next ==
  \/ IngestRpc \/ IngestBigtable \/ IngestGrpc \/ IngestJetstreamer
  \/ HeadInsert \/ HeadEvict
  \/ \E i \in DOMAIN block.txs : ReadTransaction(i) \/ ReadStatus(i)
  \/ \E view \in {"full", "accounts", "signatures", "none"}, show \in BOOLEAN :
       ReadStoredBlock(view, show) \/ ReadHeadBlock(view, show)

Spec == Init /\ [][Next]_vars

-----------------------------------------------------------------------------
(* What the ledger records, as a client may see it. *)

RecordedTx(tx) ==
  [signatures |-> tx.signatures, message |-> tx.message,
   meta |-> IF tx.meta = None THEN None
            ELSE <<[tx.meta[1] EXCEPT !.rewards = IF @ = None THEN <<<<>>>> ELSE @]>>]

RecordedAccounts(tx) ==
  LET full == RecordedTx(tx) IN
  [full EXCEPT
     !.message = [@ EXCEPT !.config = <<>>, !.lookups = <<>>,
                    !.instructions = [i \in DOMAIN @ |-> [program |-> @[i].program, data |-> ""]]],
     !.meta = IF @ = None THEN None
              ELSE <<[@[1] EXCEPT !.inner = None, !.logs = None, !.return = None, !.units = None]>>]

Recorded(view, index, show) ==
  LET txs == block.txs
      trimmed(t) == IF show \/ t.meta = None THEN t
                    ELSE [t EXCEPT !.meta = <<[@[1] EXCEPT !.rewards = <<<<>>>>]>>]
      listed == CASE view = "full" -> [i \in DOMAIN txs |-> trimmed(RecordedTx(txs[i]))]
                  [] view = "accounts" -> [i \in DOMAIN txs |-> trimmed(RecordedAccounts(txs[i]))]
                  [] view = "signatures" -> [i \in DOMAIN txs |-> txs[i].signatures[1]]
                  [] OTHER -> <<>>
  IN CASE view = "transaction" ->
            RecordedTx(txs[index]) @@ [slot |-> block.slot, index |-> index - 1, time |-> block.time]
       [] view = "status" ->
            [err |-> LET m == txs[index].meta IN
                     CASE m = None \/ m[1].err = None -> None
                       [] m # None /\ m[1].err = <<"new">> -> <<<<"text", "hex">>>>
                       [] OTHER -> <<<<"json", m[1].err[1]>>>>,
             memo |-> LET memos == SelectSeq(txs[index].message.instructions, LAMBDA ix : ix.program = Memo)
                      IN IF memos = <<>> THEN None
                         ELSE <<FlattenSeq([i \in DOMAIN memos |->
                                  <<Prefix(memos[i].data), <<"part", memos[i].data[1]>>>>])>>]
       [] OTHER -> [slot |-> block.slot, time |-> block.time, height |-> block.height,
                    partitions |-> block.partitions, txs |-> listed,
                    rewards |-> IF show THEN <<block.rewards>> ELSE None]

\* Whichever source wrote the row, whichever of two copies a read meets, and
\* whether the head cache, getTransaction or a view of getBlock answers, a
\* client sees what the ledger recorded: absent lists stay absent and recorded
\* empty ones empty, an early transaction has no metadata, commissions keep
\* their unit, and an error is never served as success.  Only an error code
\* newer than the server makes it refuse instead (build_transaction_status_meta,
\* build_versioned_transaction, block_template and the writers' conversions).
ServedAsRecorded ==
  answer.view # "nothing" =>
    \/ answer.value = <<Recorded(answer.view, answer.index, answer.show)>>
    \/ answer.value = Fail /\ answer.view # "status" /\ ~Decodable

\* Every source gives a transaction the same key, message hash and vote flag,
\* so a range ingested twice leaves one row of it after a merge and vote
\* filters do not depend on who wrote it (map_rpc_transactions,
\* map_transaction, from_transaction; ORDER BY slot, slot_idx, signature).
RowsKeyedAlike ==
  \A row \in rows : \E i \in DOMAIN block.txs :
    /\ row.signature = block.txs[i].signatures[1] /\ row.slot = block.slot /\ row.slot_idx = i - 1
    /\ row.hash = Hash(block.txs[i].message)
    /\ row.is_vote = is_simple_vote_transaction(block.txs[i])
=============================================================================
