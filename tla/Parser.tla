------------------------------- MODULE Parser -------------------------------
(***************************************************************************)
(* What the parser (src/src/parser_impl.cpp) makes of an advance input and *)
(* of a voucher request.  The fifteen decoders and the five encoders are   *)
(* one reader and one writer over the table of what each type has.         *)
(*                                                                         *)
(* A payload is its parts in order: the function selector, addresses that  *)
(* are packed in 20 bytes, and words of 32 bytes.  A word is a number when *)
(* it is an offset or a length, and otherwise a value.  Offsets and the    *)
(* lengths of bytes count words: data comes in whole words.                *)
(***************************************************************************)
EXTENDS Integers, SequencesExt

CONSTANT Junk   \* memory nobody wrote

-----------------------------------------------------------------------------
(* The types of inputs: what is done with which kind of token. *)

TokenKinds == {"ETHER", "ERC20", "ERC721", "ERC1155_SINGLE", "ERC1155_BATCH"}

InputTypes == {"DEPOSIT", "WITHDRAWAL", "TRANSFER"} \X TokenKinds

AutoType == <<"AUTO", "AUTO">>
None == <<"NONE", "NONE">>

\* Unwritten memory is not taken for a selector.
ASSUME JunkAssumption == Junk \notin InputTypes

Dynamic == {"token_ids", "amounts", "base_layer_data", "exec_layer_data"}

FieldNames == {"sender", "token", "receiver", "token_id", "amount"} \cup Dynamic

IsDeposit(type) == type[1] = "DEPOSIT"

Token(kind) == IF kind = "ETHER" THEN <<>> ELSE <<"token">>

Values(kind) ==
  CASE kind = "ERC721"         -> <<"token_id">>
    [] kind = "ERC1155_SINGLE" -> <<"token_id", "amount">>
    [] kind = "ERC1155_BATCH"  -> <<"token_ids", "amounts">>
    [] OTHER                   -> <<"amount">>

\* Portals pack the addresses, and for fungible tokens the data too.
DepositPacked(kind) == Token(kind) \o <<"sender">>

DataIsPacked(kind) == kind \in {"ETHER", "ERC20"}

DepositWords(kind) ==
  Values(kind) \o
  IF DataIsPacked(kind) THEN <<>> ELSE <<"base_layer_data", "exec_layer_data">>

\* Words before the frame that offsets count from.
DepositFrame(kind) == IF kind = "ERC1155_BATCH" THEN 0 ELSE Len(Values(kind))

WithdrawalWords(kind) == Token(kind) \o Values(kind) \o <<"exec_layer_data">>

\* Fault: the receiver comes before the token.
ReceiverFirst(kind) ==
  <<"receiver">> \o Token(kind) \o Values(kind) \o <<"exec_layer_data">>

TransferWords(kind) ==
  Token(kind) \o <<"receiver">> \o Values(kind) \o <<"exec_layer_data">>

Packed(type) == IF IsDeposit(type) THEN DepositPacked(type[2]) ELSE <<>>

HeadWords(type) ==
  CASE type[1] = "DEPOSIT"    -> DepositWords(type[2])
    [] type[1] = "WITHDRAWAL" -> WithdrawalWords(type[2])
    [] type[1] = "TRANSFER"   -> TransferWords(type[2])

FrameStart(type) == IF IsDeposit(type) THEN DepositFrame(type[2]) ELSE 0

HasPackedData(type) == IsDeposit(type) /\ DataIsPacked(type[2])

-----------------------------------------------------------------------------
(* Decoding. *)

Payload(selector, packed, words) ==
  [selector |-> selector, packed |-> packed, words |-> words]

IndexOf(seq, e) == CHOOSE i \in DOMAIN seq : seq[i] = e

\* What a dynamic field's offset word leads to: a length, then that many words.
\* Offsets count from the frame.
BlockAt(words, frame, position) == frame + words[position] + 1

BlockFits(words, frame, position) ==
  LET at == BlockAt(words, frame, position)
  IN  at <= Len(words) /\ at + words[at] <= Len(words)

Block(words, frame, position) ==
  LET at == BlockAt(words, frame, position)
  IN  SubSeq(words, at + 1, at + words[at])

IsStatic(f)  == f \notin Dynamic
IsDynamic(f) == f \in Dynamic

\* The order fields are read in.  A head has its static fields first; the offsets
\* of dynamic ones are read with it, and followed when all of the head was read.
Reads(type) ==
  Packed(type) \o HeadWords(type)
  \o (IF HasPackedData(type) THEN <<"exec_layer_data">> ELSE <<>>)

\* Packed data is what is left after the head.
Readable(type, p, f) ==
  LET head == HeadWords(type) IN
  CASE f \in ToSet(Packed(type)) -> IndexOf(Packed(type), f) <= Len(p.packed)
    [] f \in ToSet(head) /\ IsStatic(f) -> IndexOf(head, f) <= Len(p.words)
    [] f \in ToSet(head) /\ IsDynamic(f) ->
         /\ Len(head) <= Len(p.words)
         /\ BlockFits(p.words, FrameStart(type), IndexOf(head, f))
    [] OTHER -> Len(head) <= Len(p.words)

ValueRead(type, p, f) ==
  LET head == HeadWords(type) IN
  CASE f \in ToSet(Packed(type)) -> p.packed[IndexOf(Packed(type), f)]
    [] f \in ToSet(head) /\ IsStatic(f) -> p.words[IndexOf(head, f)]
    [] f \in ToSet(head) /\ IsDynamic(f) ->
         Block(p.words, FrameStart(type), IndexOf(head, f))
    [] OTHER -> SubSeq(p.words, Len(head) + 1, Len(p.words))

\* Both lists of a batch were read, and their lengths differ.
ListsMismatch(type, p) ==
  /\ type[2] = "ERC1155_BATCH"
  /\ Readable(type, p, "token_ids") /\ Readable(type, p, "amounts")
  /\ Len(ValueRead(type, p, "token_ids")) # Len(ValueRead(type, p, "amounts"))

\* The place in Reads where decoding stops.
StopAt(type, p) ==
  LET reads    == Reads(type)
      failing  == {i \in DOMAIN reads : ~Readable(type, p, reads[i])}
      mismatch == IF ListsMismatch(type, p) THEN {IndexOf(reads, "amounts") + 1} ELSE {}
  IN  Min(failing \cup mismatch \cup {Len(reads) + 1})

SelectorError(type, p) ==
  IF IsDeposit(type) \/ p.selector = type THEN "SUCCESS"
  ELSE IF p.selector = Junk THEN "ENOBUFS" ELSE "EBADMSG"

\* The decoder of a type: its error, and the fields it has written.
DecodeAs(type, p) ==
  IF SelectorError(type, p) # "SUCCESS"
  THEN [error |-> SelectorError(type, p), written |-> {}]
  ELSE
    LET stop  == StopAt(type, p)
        error == IF stop > Len(Reads(type)) THEN "SUCCESS"
                 ELSE IF ListsMismatch(type, p) /\ stop > IndexOf(Reads(type), "amounts")
                 THEN "EINVAL" ELSE "ENOBUFS"
    IN  [error |-> error, written |-> {Reads(type)[i] : i \in 1..(stop - 1)}]

\* AUTO goes by the selector, which deposits do not have.
DecodeAuto(p) ==
  IF p.selector \in InputTypes THEN DecodeAs(p.selector, p)
  ELSE [error |-> "EINVAL", written |-> {}]

\* The type whose decoder reads the payload.
DecoderOf(type, p) == IF type = AutoType THEN p.selector ELSE type

\* cma_parser_decode_advance.
DecodeAdvance(type, p) ==
  CASE type = AutoType          -> DecodeAuto(p)
    [] type \in InputTypes  -> DecodeAs(type, p)
    [] OTHER -> [error |-> "EINVAL", written |-> {}]

\* The union after a decoder wrote some fields of its member.
FieldsAfter(type, p, written, before) ==
  IF written = {} THEN before
  ELSE [f \in FieldNames |->
          IF f \in written THEN ValueRead(DecoderOf(type, p), p, f) ELSE Junk]

\* Fault: the type of the input is set before its fields are read.
TypeFirst(type, p, error, before) == DecoderOf(type, p)

\* A decoder sets the type last.
TypeAfter(type, p, error, before) ==
  IF error = "SUCCESS" THEN DecoderOf(type, p) ELSE before

-----------------------------------------------------------------------------
(* Inspect inputs: a JSON object with a method and params.  A param is good, *)
(* of the wrong form ("malformed"), or of the right form but with characters *)
(* that are no digits ("not_hex"), at which std::stoi throws.  The param     *)
(* after the token id is data, a string of json.data characters.             *)

BalanceTypes == <<<<"BALANCE", "ACCOUNT">>, <<"BALANCE", "TOKEN_ADDRESS">>,
                  <<"BALANCE", "TOKEN_ADDRESS_ID">>>>

SupplyTypes  == <<<<"SUPPLY", "TOKEN_ADDRESS">>, <<"SUPPLY", "TOKEN_ADDRESS_ID">>>>

\* What a call returns, the type it sets (None: it sets none), and the length of
\* the data it leaves in a buffer of `room` bytes.
Inspected(error, type, length) == [error |-> error, type |-> type, length |-> length]

\* Fault: the account is taken as it is.
BadTokens(types, params) ==
  {i \in DOMAIN params : i \in 2..Len(types) /\ params[i] # "good"}

BadParams(types, params) ==
  {i \in DOMAIN params : i \in 1..Len(types) /\ params[i] # "good"}

\* Params one by one; the type is set after each.
InspectParams(types, unset, json, room) ==
  LET given   == Len(json.params)
      bad     == BadParams(types, json.params)
      decoded == Min(bad \cup {given + 1}) - 1
      type    == IF decoded = 0 THEN unset ELSE types[Min({decoded, Len(types)})]
  IN  IF bad = {}
      THEN Inspected("SUCCESS", type,
                     IF given > Len(types) THEN Min({json.data, room}) ELSE 0)
      ELSE Inspected(IF json.params[decoded + 1] = "not_hex" THEN "EXCEPTION" ELSE "EINVAL",
                     type, room)

\* An account alone, or with a token, leaves the caller's buffer as it is.
GetBalance(json, room) ==
  LET given == Len(json.params)
      out   == InspectParams(BalanceTypes, None, json, room)
  IN  CASE json.shape = "no_params"   -> Inspected("EINVAL", None, room)
        [] json.shape = "not_strings" -> Inspected("EXCEPTION", None, room)
        [] json.shape = "strings" /\ given \notin 1..4 -> Inspected("EINVAL", None, room)
        [] json.shape = "strings" /\ given \in 1..4 ->
             [out EXCEPT !.length = IF given < 3 THEN room ELSE @]

\* The type is set before anything is looked at.
GetTotalSupply(json, room) ==
  LET all   == <<"SUPPLY", "ALL">>
      given == Len(json.params)
  IN  CASE json.shape = "no_params"   -> Inspected("SUCCESS", all, 0)
        [] json.shape = "not_strings" -> Inspected("EXCEPTION", all, room)
        [] json.shape = "strings" /\ given > 3  -> Inspected("EINVAL", all, room)
        [] json.shape = "strings" /\ given <= 3 ->
             InspectParams(SupplyTypes, all, json, room)

\* cma_parser_decode_inspect, for AUTO or for one method.
DecodeInspect(type, json, room) ==
  CASE json.method = "ledger_getBalance" /\ type \in {"AUTO", "BALANCE"} ->
         GetBalance(json, room)
    [] json.method = "ledger_getTotalSupply" /\ type \in {"AUTO", "SUPPLY"} ->
         GetTotalSupply(json, room)
    [] OTHER -> Inspected("EINVAL", None, room)

-----------------------------------------------------------------------------
(* Vouchers. *)

SelectorBytes == 4
WordBytes     == 32

\* Fault: from whom and to whom are swapped.
ReceiverThenSender(kind) ==
  CASE kind = "ERC20"         -> <<"receiver", "amount">>
    [] kind = "ERC721"        -> <<"receiver", "sender", "token_id">>
    [] OTHER -> <<"receiver", "sender">> \o Values(kind) \o <<"exec_layer_data">>

\* The arguments of the call a voucher makes; the sender is the application.
Arguments(kind) ==
  CASE kind = "ERC20"         -> <<"receiver", "amount">>
    [] kind = "ERC721"        -> <<"sender", "receiver", "token_id">>
    [] OTHER -> <<"sender", "receiver">> \o Values(kind) \o <<"exec_layer_data">>

\* CMA_PARSER_*_VOUCHER_PAYLOAD_SIZE and _MIN_SIZE.
PayloadMinSize(kind) ==
  SelectorBytes + WordBytes *
    CASE kind = "ERC20" -> 2
      [] kind = "ERC721" -> 3
      [] kind = "ERC1155_SINGLE" -> 6
      [] kind = "ERC1155_BATCH" -> 8

SizeAsked(kind, request) ==
  PayloadMinSize(kind) +
    CASE kind = "ERC1155_SINGLE" -> WordBytes * Len(request.exec_layer_data)
      [] kind = "ERC1155_BATCH"  ->
           2 * Len(request.token_ids) + WordBytes
             + WordBytes * Len(request.exec_layer_data)
      [] OTHER -> 0

\* `uints->begin - start`, for a block put after `words`.
OffsetOf(words) == Len(words)

\* The words of the arguments, as many as there is room for; that of a dynamic
\* one is left open.
PutHead(kind, request, room) ==
  LET head == Arguments(kind) IN
  [i \in 1..Min({Len(head), room}) |->
     IF IsDynamic(head[i]) THEN Junk ELSE request[head[i]]]

\* cmt_abi_put_bytes_d, cma_abi_put_uint256_list_d: the offset, then the block.
PutBlock(kind, request, room, put, f) ==
  LET block == <<Len(request[f])>> \o request[f] IN
  IF put.error # "SUCCESS" \/ Len(put.words) + Len(block) > room
  THEN [put EXCEPT !.error = "ENOBUFS"]
  ELSE [put EXCEPT !.words =
          [@ EXCEPT ![IndexOf(Arguments(kind), f)] = OffsetOf(put.words)] \o block]

\* A put that fails ends the voucher.
PutAll(kind, request, room) ==
  LET words == PutHead(kind, request, room)
      head  == [words |-> words,
                error |-> IF Len(words) < Len(Arguments(kind)) THEN "ENOBUFS" ELSE "SUCCESS"]
      Put(put, f) == PutBlock(kind, request, room, put, f)
  IN  CASE kind = "ERC1155_SINGLE" -> Put(head, "exec_layer_data")
        [] kind = "ERC1155_BATCH" ->
             Put(Put(Put(head, "token_ids"), "amounts"), "exec_layer_data")
        [] OTHER -> head

\* A voucher is untouched memory until a call writes it.
NoVoucher == [address |-> Junk, value |-> Junk, words |-> <<>>]

\* cma_parser_encode_voucher into a buffer of `room` words after the selector,
\* or into none (room = -1).
EncodeVoucher(kind, has_app, request, room) ==
  LET refuse(error) == [error |-> error, voucher |-> NoVoucher]
      put     == PutAll(kind, request, room)
      invalid == \/ kind \notin TokenKinds
                 \/ kind \notin {"ETHER", "ERC20"} /\ ~has_app
                 \/ kind = "ERC1155_BATCH" /\ Len(request.token_ids) # Len(request.amounts)
      ether   == ~invalid /\ kind = "ETHER"
      tight   == room = -1 \/ SelectorBytes + WordBytes * room < SizeAsked(kind, request)
  IN
  CASE invalid -> refuse("EINVAL")
    [] ether ->
         [error |-> "SUCCESS",
          voucher |-> [address |-> request.receiver, value |-> request.amount,
                       words |-> <<>>]]
    [] ~invalid /\ ~ether /\ tight -> refuse("ENOBUFS")
    [] OTHER ->
         [error |-> put.error,
          voucher |-> [address |-> request.token, value |-> 0, words |-> put.words]]
=============================================================================
