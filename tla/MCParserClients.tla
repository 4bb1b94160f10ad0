--------------------------- MODULE MCParserClients ---------------------------
(***************************************************************************)
(* Every field has a value of its own, so that no two can be taken for one *)
(* another; lists and data have up to two items.  The echo application     *)
(* serves two requests one after the other, so that what is left of the    *)
(* first can reach the second; its deposits are whole or cut by a word.    *)
(***************************************************************************)
EXTENDS ParserClients

CONSTANTS alice, token, bob, token_id, amount, id1, id2, amount1, amount2, base, exec

Lists(items) == {SubSeq(items, 1, n) : n \in 0..Len(items)}

ArgsWith(ids, amounts, bases, datas) ==
  {[f \in FieldNames |->
      CASE f = "sender" -> alice [] f = "token" -> token [] f = "receiver" -> bob
        [] f = "token_id" -> token_id [] f = "amount" -> amount
        [] f = "token_ids" -> i [] f = "amounts" -> a
        [] f = "base_layer_data" -> b [] f = "exec_layer_data" -> d] :
     i \in ids, a \in amounts, b \in bases, d \in datas}

-----------------------------------------------------------------------------
(* The caller. *)

AllArgs ==
  ArgsWith(Lists(<<id1, id2>>), Lists(<<amount1, amount2>>), Lists(<<base>>), Lists(<<exec>>))

AllVoucherRequests ==
  ArgsWith(Lists(<<id1, id2>>), Lists(<<amount1, amount2>>), {<<>>}, Lists(<<exec, exec>>))

AllRooms == (-1)..14

-----------------------------------------------------------------------------
(* The echo application. *)

Batches == {<<0, 0>>, <<1, 1>>, <<2, 2>>, <<1, 2>>, <<2, 0>>}

DepositArgs(kind) ==
  IF kind = "ERC1155_BATCH"
  THEN UNION {ArgsWith({SubSeq(<<id1, id2>>, 1, b[1])}, {SubSeq(<<amount1, amount2>>, 1, b[2])},
                       {<<base>>}, {<<>>}) : b \in Batches}
  ELSE ArgsWith({<<>>}, {<<>>}, {<<base>>}, {<<>>, <<exec>>})

\* By the portal of the kind, or by the one of `sender`.  What is cut is a word that
\* is read.
DepositRequest(kind, args, sent_by, whole) ==
  LET p == InputOf(<<"DEPOSIT", kind>>, args, FALSE)
      packed == IF DataIsPacked(kind) THEN Len(args["exec_layer_data"]) ELSE 0
  IN  Request("advance", sent_by, [kind |-> kind, args |-> args, whole |-> whole],
              IF whole THEN p ELSE Cut(p, Parts(p) - packed - 1))

SmallArgs(kind) == CHOOSE args \in DepositArgs(kind) : args["token_ids"] = <<>>

AllRequests ==
  {Request("inspect", "none", <<>>, <<>>), Request("other", "none", <<>>, <<>>),
   DepositRequest("ERC20", SmallArgs("ERC20"), "anyone", TRUE)}
  \cup UNION {{DepositRequest(kind, args, kind, TRUE) : args \in DepositArgs(kind)}
              \cup {DepositRequest(kind, SmallArgs(kind), kind, FALSE)} : kind \in TokenKinds}
=============================================================================
