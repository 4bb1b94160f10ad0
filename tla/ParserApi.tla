----------------------------- MODULE ParserApi -----------------------------
(***************************************************************************)
(* The three calls of the parser (src/src/parser.cpp) made one after the   *)
(* other with the same structures, as the tests do: a call decodes into a  *)
(* parser_input that still holds an earlier one.                           *)
(*                                                                         *)
(* A call's inputs are those of a client, cut short or addressed to a      *)
(* different decoder.                                                      *)
(***************************************************************************)
EXTENDS ParserInputs

CONSTANTS
  Args,              \* what a client puts in an input: field -> value
  VoucherRequests,   \* voucher requests: field -> value
  Rooms              \* words of a voucher's buffer after the selector; -1: no buffer

ASSUME ApiAssumption ==
  /\ \A args \in Args \cup VoucherRequests : AreFields(args)
  /\ Rooms \subseteq Nat \cup {-1}

VARIABLES
  asked,         \* the call to be made, and what its input was made of
  parser_input,  \* cma_parser_input_t: type and fields
  voucher,       \* cma_voucher_t
  result         \* the last error code

apiVars == <<asked, parser_input, voucher, result>>

-----------------------------------------------------------------------------
(* What is asked. *)

\* Decoders that can meet an input: its own, AUTO, NONE, and of inputs with a
\* selector any that looks at it.
DecodersFor(type) ==
  {type, AutoType, None} \cup
  IF IsDeposit(type) THEN {} ELSE {t \in InputTypes : ~IsDeposit(t) /\ t[2] = type[2]}

Nothing == [call |-> "none"]

EmptyInput == [f \in FieldNames |-> Junk]

ApiInit ==
  /\ asked = Nothing
  /\ parser_input = [type |-> None, fields |-> EmptyInput, length |-> 0]
  /\ voucher = NoVoucher
  /\ result = "none"

\* A call is prepared: inputs arrive from outside.
Idle == asked = Nothing /\ result = "none"

Ask(call) ==
  /\ asked' = call
  /\ UNCHANGED <<parser_input, voucher, result>>

\* Nothing is put in dynamic fields that are not there.
OnlyHas(args, fields) == \A f \in Dynamic \ ToSet(fields) : args[f] = <<>>

ClientInputs ==
  {[from |-> from, args |-> args, whole |-> InputOf(from, args, backwards)] :
     from \in InputTypes, args \in Args, backwards \in BOOLEAN}

AskAdvance ==
  /\ Idle
  /\ \E input \in ClientInputs :
       /\ OnlyHas(input.args, Reads(input.from))
       /\ \E type \in DecodersFor(input.from), n \in 0..Parts(input.whole) :
            Ask([call |-> "advance", type |-> type, input |-> input, parts |-> n])

\* Params of which one at most is not good.
ParamLists ==
  {[i \in 1..n |-> IF i = bad THEN why ELSE "good"] :
     n \in 0..5, bad \in 0..5, why \in {"malformed", "not_hex"}}

AskInspect ==
  /\ Idle
  /\ \E type \in {"AUTO", "BALANCE", "SUPPLY", "NONE"}, room \in {0, 2},
        method \in {"ledger_getBalance", "ledger_getTotalSupply", "other"},
        shape \in {"strings", "no_params", "not_strings"}, data \in {0, 3},
        params \in ParamLists :
       /\ shape # "strings" => params = <<>>
       /\ Ask([call |-> "inspect", wanted |-> type, room |-> room,
               json |-> [method |-> method, shape |-> shape,
                         params |-> params, data |-> data]])

AskVoucher ==
  /\ Idle
  /\ \E kind \in TokenKinds \cup {"NONE"}, has_app \in BOOLEAN,
        request \in VoucherRequests, room \in Rooms :
       /\ kind \in TokenKinds \ {"ETHER"} => OnlyHas(request, Parameters(kind))
       /\ Ask([call |-> "voucher", kind |-> kind, has_app |-> has_app,
               request |-> request, room |-> room])

-----------------------------------------------------------------------------
(* The calls. *)

Decode ==
  LET p   == Cut(asked.input.whole, asked.parts)
      out == DecodeAdvance(asked.type, p)
  IN  /\ asked.call = "advance" /\ result = "none"
      /\ result' = out.error
      /\ parser_input' =
           [parser_input EXCEPT
              !.fields = FieldsAfter(asked.type, p, out.written, @),
              !.type = TypeAfter(asked.type, p, out.error, @)]
      /\ UNCHANGED <<asked, voucher>>

Inspect ==
  LET out == DecodeInspect(asked.wanted, asked.json, asked.room)
  IN  /\ asked.call = "inspect" /\ result = "none"
      /\ result' = out.error
      /\ parser_input' = [type |-> IF out.type = None THEN parser_input.type ELSE out.type,
                          fields |-> EmptyInput, length |-> out.length]
      /\ UNCHANGED <<asked, voucher>>

Encode ==
  LET out == EncodeVoucher(asked.kind, asked.has_app, asked.request, asked.room)
  IN  /\ asked.call = "voucher" /\ result = "none"
      /\ result' = out.error
      /\ voucher' = out.voucher
      /\ UNCHANGED <<asked, parser_input>>

\* The caller has used what it got, and does not look at it any more.
Release ==
  /\ result # "none"
  /\ asked' = Nothing /\ result' = "none"
  /\ voucher' = NoVoucher
  /\ parser_input' = [parser_input EXCEPT !.fields = EmptyInput, !.length = 0]

ApiNext ==
  \/ AskAdvance \/ AskInspect \/ AskVoucher
  \/ Decode \/ Inspect \/ Encode \/ Release

ApiSpec == ApiInit /\ [][ApiNext]_apiVars

-----------------------------------------------------------------------------
(* What the calls promise. *)

Returned(call) == asked.call = call /\ result # "none"

\* The input has all that its decoder reads: every block but data that is
\* packed, which may be of any length.
Whole ==
  LET p == asked.input.whole
      packed == IF HasPackedData(asked.input.from) THEN Len(asked.input.args["exec_layer_data"]) ELSE 0
  IN  asked.parts >= Parts(p) - packed

\* decode_advance succeeds just for a whole input that goes to its own decoder,
\* by name or by selector, with as many amounts as token ids; blocks can be in
\* any order.  Nothing of an earlier input is left in its fields.
DecodesJustTheInput ==
  Returned("advance") =>
    LET from    == asked.input.from
        args    == asked.input.args
        fields  == ToSet(Reads(from)) \ {"exec_layer_data"}
        paired  == from[2] = "ERC1155_BATCH" =>
                     Len(args["token_ids"]) = Len(args["amounts"])
        allowed == \/ asked.type = from
                   \/ asked.type = AutoType /\ ~IsDeposit(from)
    IN  /\ result = "SUCCESS" <=> allowed /\ Whole /\ paired
        /\ result = "SUCCESS" =>
             /\ parser_input.type = from
             /\ \A f \in fields : parser_input.fields[f] = args[f]
             /\ IsPrefix(parser_input.fields["exec_layer_data"], args["exec_layer_data"])

\* An advance input that is refused never passes for one of the type asked for,
\* although its fields are half written: the type is set last.
RefusedKeepsType ==
  [][asked.call = "advance" /\ result' \notin {"none", "SUCCESS"} =>
       parser_input'.type = parser_input.type]_apiVars

\* decode_inspect takes the methods it was asked for, with as many params as the
\* method has, all good; the type tells how many there were, and there is never
\* more data than the caller has room for.
InspectsJustTheParams ==
  Returned("inspect") =>
    LET json   == asked.json
        n      == Len(json.params)
        params == IF json.method = "ledger_getBalance" THEN 3 ELSE 2
        types  == IF json.method = "ledger_getBalance" THEN BalanceTypes ELSE SupplyTypes
        goes   == \/ json.method = "ledger_getBalance" /\ asked.wanted \in {"AUTO", "BALANCE"}
                     /\ n >= 1
                  \/ json.method = "ledger_getTotalSupply" /\ asked.wanted \in {"AUTO", "SUPPLY"}
                     /\ json.shape # "not_strings"
    IN  /\ result = "SUCCESS" <=>
             goes /\ n <= params + 1 /\ \A i \in 1..Min({n, params}) : json.params[i] = "good"
        /\ result = "SUCCESS" =>
             parser_input.type = IF n = 0 THEN <<"SUPPLY", "ALL">> ELSE types[Min({n, params})]
        /\ parser_input.length <= asked.room
        /\ result = "SUCCESS" /\ n > params =>
             parser_input.length = Min({json.data, asked.room})

\* A voucher that was encoded, read as the called contract reads it, pays what
\* was requested: no argument is cut by the buffer or offset from the wrong place.
VoucherPaysRequest ==
  Returned("voucher") /\ result = "SUCCESS" =>
    LET request == asked.request IN
    IF asked.kind = "ETHER"
    THEN voucher = [address |-> request["receiver"], value |-> request["amount"], words |-> <<>>]
    ELSE /\ voucher.address = request["token"] /\ voucher.value = 0
         /\ Len(voucher.words) <= asked.room
         /\ \A f \in ToSet(Parameters(asked.kind)) :
              ParameterRead(asked.kind, voucher.words, f) = request[f]
=============================================================================
