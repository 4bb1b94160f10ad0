---------------------------- MODULE ParserInputs ----------------------------
(***************************************************************************)
(* The other side of the parser: what portals and users put in an input,   *)
(* and what the contract a voucher calls reads in it.  Both follow the     *)
(* Solidity ABI.  Blocks follow the head, in the order of their offsets or *)
(* in the opposite one.                                                    *)
(***************************************************************************)
EXTENDS Parser

\* What a structure of the parser can hold: lists in its dynamic fields.
AreFields(args) == \A f \in Dynamic : args[f] \in Seq(ToSet(args[f]))

AbiBlock(args, f) == IF IsDynamic(f) THEN <<Len(args[f])>> \o args[f] ELSE <<>>

\* The blocks of the first n fields.
AbiBlocks(args, fields, n) == FlattenSeq([j \in 1..n |-> AbiBlock(args, fields[j])])

Ordered(fields, backwards) == IF backwards THEN Reverse(fields) ELSE fields

\* Offsets do not count the `before` words in front of the frame.
AbiWords(before, fields, args, backwards) ==
  LET n     == Len(fields)
      order == Ordered(fields, backwards)
      Start(f) == Len(AbiBlocks(args, order, IndexOf(order, f) - 1))
  IN  [j \in 1..n |-> IF IsDynamic(fields[j]) THEN n - before + Start(fields[j])
                      ELSE args[fields[j]]]
      \o AbiBlocks(args, order, n)

\* What portals and users put in their inputs: the signatures next to the
\* selectors in parser.h, and the layouts in tests/parser.c.
PackedSent(kind) == IF kind = "ETHER" THEN <<"sender">> ELSE <<"token", "sender">>

WordsSent(type) ==
  LET op == type[1]  kind == type[2] IN
  CASE op = "DEPOSIT" /\ kind \in {"ETHER", "ERC20"} -> <<"amount">>
    [] op = "DEPOSIT" /\ kind = "ERC721" ->
         <<"token_id", "base_layer_data", "exec_layer_data">>
    [] op = "DEPOSIT" /\ kind = "ERC1155_SINGLE" ->
         <<"token_id", "amount", "base_layer_data", "exec_layer_data">>
    [] op = "DEPOSIT" /\ kind = "ERC1155_BATCH" ->
         <<"token_ids", "amounts", "base_layer_data", "exec_layer_data">>
    [] op = "WITHDRAWAL" /\ kind = "ETHER" -> <<"amount", "exec_layer_data">>
    [] op = "WITHDRAWAL" /\ kind = "ERC20" -> <<"token", "amount", "exec_layer_data">>
    [] op = "WITHDRAWAL" /\ kind = "ERC721" -> <<"token", "token_id", "exec_layer_data">>
    [] op = "WITHDRAWAL" /\ kind = "ERC1155_SINGLE" ->
         <<"token", "token_id", "amount", "exec_layer_data">>
    [] op = "WITHDRAWAL" /\ kind = "ERC1155_BATCH" ->
         <<"token", "token_ids", "amounts", "exec_layer_data">>
    [] op = "TRANSFER" /\ kind = "ETHER" -> <<"receiver", "amount", "exec_layer_data">>
    [] op = "TRANSFER" /\ kind = "ERC20" ->
         <<"token", "receiver", "amount", "exec_layer_data">>
    [] op = "TRANSFER" /\ kind = "ERC721" ->
         <<"token", "receiver", "token_id", "exec_layer_data">>
    [] op = "TRANSFER" /\ kind = "ERC1155_SINGLE" ->
         <<"token", "receiver", "token_id", "amount", "exec_layer_data">>
    [] op = "TRANSFER" /\ kind = "ERC1155_BATCH" ->
         <<"token", "receiver", "token_ids", "amounts", "exec_layer_data">>

\* A portal encodes the data apart from the ids and amounts before it; after the
\* amount of a fungible deposit, the data is just what is left.
InputOf(type, args, backwards) ==
  LET words  == WordsSent(type)
      before == IF IsDeposit(type) THEN Cardinality({j \in DOMAIN words : IsStatic(words[j])}) ELSE 0
      packed == IF IsDeposit(type) THEN PackedSent(type[2]) ELSE <<>>
      left   == IF IsDeposit(type) /\ type[2] \in {"ETHER", "ERC20"}
                THEN args["exec_layer_data"] ELSE <<>>
  IN  Payload(IF IsDeposit(type) THEN None ELSE type,
              [i \in DOMAIN packed |-> args[packed[i]]],
              AbiWords(before, words, args, backwards) \o left)

\* The parameters of the functions vouchers call, by the signatures in parser.h.
Parameters(kind) ==
  CASE kind = "ERC20"          -> <<"receiver", "amount">>
    [] kind = "ERC721"         -> <<"sender", "receiver", "token_id">>
    [] kind = "ERC1155_SINGLE" ->
         <<"sender", "receiver", "token_id", "amount", "exec_layer_data">>
    [] kind = "ERC1155_BATCH"  ->
         <<"sender", "receiver", "token_ids", "amounts", "exec_layer_data">>

\* A parameter as the called contract reads it.
ParameterRead(kind, words, f) ==
  LET i == IndexOf(Parameters(kind), f)
  IN  IF IsStatic(f) THEN words[i] ELSE Block(words, 0, i)

Parts(p) == (IF p.selector = None THEN 0 ELSE 1) + Len(p.packed) + Len(p.words)

\* The first `n` parts of a payload.
Cut(p, n) ==
  LET packed == SubSeq(p.packed, 1, Min({n, Len(p.packed)}))
      first  == IF p.selector = None THEN 0 ELSE 1
      words  == n - first - Len(packed)
  IN  IF first = 1 /\ n = 0 THEN Payload(Junk, <<>>, <<>>)
      ELSE Payload(p.selector, packed, SubSeq(p.words, 1, words))
=============================================================================
