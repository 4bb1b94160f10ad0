---------------------------- MODULE EchoVoucher ----------------------------
(***************************************************************************)
(* The echo application (sample_apps/echo_voucher/app.cpp): every deposit  *)
(* is sent back with a voucher.  One process serves requests for ever; the *)
(* rollup device that brings them is external, and each call to it fails   *)
(* or not.                                                                 *)
(***************************************************************************)
EXTENDS ParserInputs

CONSTANTS
  Requests,      \* what the device may deliver
  App,           \* the address of the application
  MaxRequests    \* bound: requests delivered before the device goes silent

ASSUME MaxRequestsAssumption == MaxRequests \in Nat \ {0}

\* A request: its type, who sent it (the portal of a kind of token, or anyone
\* else), and the payload, of which `from` remembers what the portal put in it.
Request(type, sender, from, payload) ==
  [type |-> type, sender |-> sender, from |-> from, payload |-> payload]

NoRequest == Request("none", "none", <<>>, <<>>)

\* The portal of a kind sends an input of its kind, which arrives whole or cut
\* before the end of what is read.
SentByPortal(from, payload) ==
  LET p      == InputOf(<<"DEPOSIT", from.kind>>, from.args, FALSE)
      packed == IF DataIsPacked(from.kind) THEN Len(from.args["exec_layer_data"]) ELSE 0
  IN  IF from.whole THEN payload = p
      ELSE \E n \in 0..(Parts(p) - packed - 1) : payload = Cut(p, n)

ASSUME RequestsAssumption ==
  \A r \in Requests :
    /\ r = Request(r.type, r.sender, r.from, r.payload)
    /\ r.type \in {"inspect", "advance", "other"}
    /\ r.sender \in TokenKinds =>
         /\ r.from.kind = r.sender /\ r.from.whole \in BOOLEAN /\ AreFields(r.from.args)
         /\ SentByPortal(r.from, r.payload)

VARIABLES
  at,                       \* where the process is
  accept_previous_request,  \* the loop's variable
  request,                  \* the device's current request
  outputs,                  \* the vouchers and reports emitted for it
  answered                  \* history: each request that was answered

echoVars == <<at, accept_previous_request, request, outputs, answered>>

NoOutputs == [vouchers |-> <<>>, reports |-> <<>>, failed |-> FALSE]

EchoInit ==
  /\ at = "loop"
  /\ accept_previous_request = TRUE
  /\ request = NoRequest
  /\ outputs = NoOutputs
  /\ answered = <<>>

-----------------------------------------------------------------------------
(* cmt_rollup_finish: the verdict on the request before, then the next one. *)

\* The device takes the verdict and waits.  Of a request that is rejected, it
\* keeps no voucher.
Finish ==
  /\ at = "loop"
  /\ at' = "waiting"
  /\ answered' =
       IF request = NoRequest THEN answered
       ELSE Append(answered, [request |-> request, accepted |-> accept_previous_request,
                              emitted |-> outputs.vouchers, failed |-> outputs.failed])
  /\ request' = NoRequest
  /\ outputs' = NoOutputs
  /\ UNCHANGED accept_previous_request

\* The call fails before that: the process tries again, with a new verdict.
FinishFails ==
  /\ at = "loop"
  /\ accept_previous_request' = FALSE
  /\ outputs' = [outputs EXCEPT !.failed = TRUE]
  /\ UNCHANGED <<at, request, answered>>

\* A request arrives, and the process goes to its handler.
Deliver ==
  /\ at = "waiting" /\ Len(answered) < MaxRequests
  /\ \E next \in Requests :
       /\ request' = next
       /\ at' = next.type
  /\ UNCHANGED <<accept_previous_request, outputs, answered>>

\* It arrives, but the call fails: the process has not seen it.
DeliverFails ==
  /\ at = "waiting" /\ Len(answered) < MaxRequests
  /\ request' \in Requests
  /\ at' = "loop"
  /\ accept_previous_request' = FALSE
  /\ outputs' = [outputs EXCEPT !.failed = TRUE]
  /\ UNCHANGED answered

\* Fault: a refused request is not finished.
ReturnUnfinished(status) ==
  at' = (IF status THEN "loop" ELSE "waiting") /\ accept_previous_request' = status

\* A handler returns to the loop, which keeps its verdict.
HandlerReturns(status) == at' = "loop" /\ accept_previous_request' = status

\* rollup_emit_report: failing to emit it is ignored.
RefuseWith(error) ==
  /\ HandlerReturns(FALSE)
  /\ \E reports \in {<<error>>, <<>>} : outputs' = [outputs EXCEPT !.reports = reports]

-----------------------------------------------------------------------------
(* Handlers. *)

InvalidRequest ==
  /\ at = "other"
  /\ HandlerReturns(FALSE)
  /\ UNCHANGED <<request, outputs, answered>>

\* inspect_state
InspectState ==
  /\ at = "inspect"
  /\ \/ HandlerReturns(TRUE) /\ UNCHANGED outputs
     \/ HandlerReturns(FALSE) /\ outputs' = [outputs EXCEPT !.failed = TRUE]
  /\ UNCHANGED <<request, answered>>

\* The voucher sends back to the sender what the deposit brought.
VoucherReq(fields) ==
  [f \in FieldNames |->
     CASE f = "receiver"        -> fields["sender"]
       [] f = "sender"          -> App
       [] f = "exec_layer_data" -> <<>>
       [] OTHER                 -> fields[f]]

\* Fault: a batch's buffer has room for one of the lists.
OneList(kind, voucher_req) ==
  CASE kind = "ETHER" -> -1
    [] kind = "ERC1155_BATCH" ->
         (PayloadMinSize(kind) - SelectorBytes) \div WordBytes + Len(voucher_req["token_ids"])
    [] OTHER -> (PayloadMinSize(kind) - SelectorBytes) \div WordBytes

\* Words of the payload's buffer; an ether voucher has no payload.
PayloadRoom(kind, voucher_req) ==
  CASE kind = "ETHER" -> -1
    [] kind = "ERC1155_BATCH" ->
         (PayloadMinSize(kind) - SelectorBytes) \div WordBytes + 2 * Len(voucher_req["token_ids"])
    [] OTHER -> (PayloadMinSize(kind) - SelectorBytes) \div WordBytes

\* Ether and ERC20 vouchers are encoded without the application's address.
HasApp(kind) == kind \notin {"ETHER", "ERC20"}

\* The error a report gives when a voucher cannot be encoded.
EncodeError(kind, error) == IF HasApp(kind) THEN "EINVAL" ELSE error

\* Reading the input fails, and the process ends.
ForceExit ==
  /\ at = "advance"
  /\ at' = "exited"
  /\ outputs' = [outputs EXCEPT !.failed = TRUE]
  /\ UNCHANGED <<accept_previous_request, request, answered>>

\* Not from a portal.
InvalidAdvance ==
  /\ at = "advance" /\ request.sender \notin TokenKinds
  /\ RefuseWith("EINVAL")
  /\ UNCHANGED <<request, answered>>

\* The portal of a kind of token: decode, encode, emit.
Deposit(kind) ==
  LET type    == <<"DEPOSIT", kind>>
      decoded == DecodeAdvance(type, request.payload)
      fields  == FieldsAfter(type, request.payload, decoded.written,
                             [f \in FieldNames |-> Junk])
      voucher_req == VoucherReq(fields)
      encoded == EncodeVoucher(kind, HasApp(kind), voucher_req, PayloadRoom(kind, voucher_req))
  IN
  /\ at = "advance" /\ request.sender = kind
  /\ UNCHANGED <<request, answered>>
  /\ \/ decoded.error # "SUCCESS" /\ RefuseWith(decoded.error)
     \/ /\ decoded.error = "SUCCESS" /\ encoded.error # "SUCCESS"
        /\ RefuseWith(EncodeError(kind, encoded.error))
     \/ /\ decoded.error = "SUCCESS" /\ encoded.error = "SUCCESS"
        /\ \/ /\ HandlerReturns(TRUE)
              /\ outputs' = [outputs EXCEPT !.vouchers = Append(@, encoded.voucher)]
           \/ /\ HandlerReturns(FALSE)
              /\ \E reports \in {<<"EINVAL">>, <<>>} :
                   outputs' = [outputs EXCEPT !.reports = reports, !.failed = TRUE]

Handle ==
  \/ InvalidRequest \/ InspectState \/ ForceExit \/ InvalidAdvance
  \/ \E kind \in TokenKinds : Deposit(kind)

EchoNext == Finish \/ FinishFails \/ Deliver \/ DeliverFails \/ Handle

Terminated ==
  /\ at = "exited" \/ (at = "waiting" /\ Len(answered) = MaxRequests)
  /\ UNCHANGED echoVars

-----------------------------------------------------------------------------
(* What is expected of it. *)

\* A voucher repays a deposit: executed, it makes the token's contract move just
\* what was deposited from the application to the depositor.
Repays(voucher, kind, args) ==
  IF kind = "ETHER"
  THEN voucher = [address |-> args["sender"], value |-> args["amount"], words |-> <<>>]
  ELSE LET Says(f, v) == ParameterRead(kind, voucher.words, f) = v IN
       /\ voucher.address = args["token"] /\ voucher.value = 0
       /\ Says("receiver", args["sender"])
       /\ kind # "ERC20" => Says("sender", App)
       /\ \A f \in ToSet(Values(kind)) : Says(f, args[f])

\* What the portal of a kind sends, not cut, and with lists of one length.
GoodDeposit(r) ==
  /\ r.type = "advance" /\ r.sender \in TokenKinds
  /\ r.from.whole /\ r.from.kind = r.sender
  /\ r.sender = "ERC1155_BATCH" =>
       Len(r.from.args["token_ids"]) = Len(r.from.args["amounts"])

\* A batch of no token at all: its buffer misses the size check by a word.
EmptyBatch(r) == r.sender = "ERC1155_BATCH" /\ r.from.args["token_ids"] = <<>>

AcceptedIsRepaid(a) ==
  a.accepted /\ a.request.type = "advance" =>
    /\ GoodDeposit(a.request)
    /\ Len(a.emitted) = 1
    /\ Repays(a.emitted[1], a.request.sender, a.request.from.args)

GoodIsAccepted(a) ==
  ~a.failed => a.accepted = \/ a.request.type = "inspect"
                            \/ GoodDeposit(a.request) /\ ~EmptyBatch(a.request)

RefusedHasNoVoucher(a) == ~a.accepted /\ a.emitted # <<>> => a.failed

\* Every advance that is accepted is a good deposit, and was paid back with one
\* voucher: nothing is kept, and nothing is paid twice (app.cpp:140-371).  When no
\* call to the device failed for it, a good deposit is accepted, and so is an
\* inspect: a failure with one request is no verdict on the next (the loop's
\* variable, app.cpp:397-401).  For one that its handler refuses no voucher was
\* emitted; only a failing finish rejects a request that has one.
DepositsAreRepaid ==
  \A i \in DOMAIN answered :
    AcceptedIsRepaid(answered[i]) /\ GoodIsAccepted(answered[i])
      /\ RefusedHasNoVoucher(answered[i])

\* Every request is answered, unless the process ends: the loop goes on whatever
\* becomes of a request ("Always continue, despite request failing or not",
\* app.cpp:398).
EveryRequestIsAnswered ==
  \A n \in 1..MaxRequests :
    (request # NoRequest /\ Len(answered) = n - 1)
      ~> (Len(answered) = n \/ at = "exited")
=============================================================================
