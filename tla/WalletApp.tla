------------------------------ MODULE WalletApp ------------------------------
(***************************************************************************)
(* The wallet application (src/sample_apps/wallet_app/app.cpp) over the    *)
(* ledger of LedgerMemory.  It answers one request at a time: a deposit    *)
(* made at a portal, or a withdrawal or a transfer asked by a user.        *)
(*                                                                         *)
(* A handler is a list of calls, most of them to the ledger, the first of  *)
(* which that fails ends it with an exception.  Receive puts the list in   *)
(* `todo`; each step of the handler is an action.  A request that fails is *)
(* reported to cmt_rollup_finish as not accepted, and the machine the      *)
(* application runs in goes back to the state before it.                   *)
(***************************************************************************)
EXTENDS LedgerMemory

CONSTANTS
  Kinds,       \* the kinds of tokens in use
  MaxBatch     \* bound of the model: items of a batch

ASSUME WalletAssumption ==
  /\ Kinds \subseteq {"ETHER", "ERC20", "ERC721", "ERC1155_SINGLE",
                      "ERC1155_BATCH"}
  /\ MaxBatch \in Nat

VARIABLES
  phase,              \* what the process is doing
  ether_id,           \* get_ether_id_storage()
  request,            \* the request being processed
  todo,               \* the calls its handler has not made yet
  lacc_id,            \* locals of the handler: the sender's account,
  receiver_lacc_id,   \* the receiver's,
  lass_id,            \* the asset,
  asset_type,         \* its type, which retrieve_asset takes and returns,
  payee,              \* and the address in the sender's account
  vouchers,           \* emitted by the last request
  saved               \* the ledger when the request was received

locals  == <<lacc_id, receiver_lacc_id, lass_id, asset_type, payee>>
appVars == <<phase, ether_id, request, todo, locals, vouchers, saved>>

-----------------------------------------------------------------------------
(* Requests. *)

NoItem == [token |-> Zero, token_id |-> Zero, amount |-> 0]

AssetTypeOf(kind) ==
  CASE kind = "ETHER"  -> "BASE"
    [] kind = "ERC20"  -> "TOKEN_ADDRESS"
    [] kind = "ERC721" -> "TOKEN_ADDRESS_ID"
    [] OTHER           -> "TOKEN_ADDRESS_ID_AMOUNT"

\* What a request of each kind can name; an ERC-721 token has one unit.
Items(kind) ==
  [token: IF kind = "ETHER" THEN {Zero} ELSE Tokens,
   token_id: IF HasTokenId(AssetTypeOf(kind)) THEN TokenIds ELSE {Zero},
   amount: IF kind = "ERC721" THEN {1} ELSE Amounts]

\* A batch is of one token, and may be empty.
ItemLists(kind) ==
  IF kind = "ERC1155_BATCH"
  THEN {items \in UNION {[1..n -> Items(kind)] : n \in 0..MaxBatch} :
          \A i, j \in DOMAIN items : items[i].token = items[j].token}
  ELSE {<<item>> : item \in Items(kind)}

\* "other" is a request the parser does not know.
RequestsOf(kind) ==
  [op: {"deposit", "withdraw"}, kind: {kind}, sender: Wallets,
   receiver: {Zero}, items: ItemLists(kind)]
  \cup
  [op: {"transfer"}, kind: {kind}, sender: Wallets,
   receiver: Bytes32, items: ItemLists(kind)]
  \cup
  [op: {"other"}, kind: {kind}, sender: Wallets, receiver: {Zero}, items: {<<>>}]

-----------------------------------------------------------------------------
(* Handlers. *)

Call(name) == <<[name |-> name, item |-> NoItem]>>

\* The calls made for each item, one item after the other.
Each(items, names) ==
  LET n == Len(names) IN
  [i \in 1..(Len(items) * n) |->
     [name |-> names[((i - 1) % n) + 1],
      item |-> items[((i - 1) \div n) + 1]]]

DepositCalls(kind, items) ==
  CASE kind = "ETHER" -> Each(items, <<"account", "deposit">>)
    [] kind = "ERC1155_BATCH" ->
         Call("account") \o Each(items, <<"asset", "deposit">>)
    [] OTHER -> Each(items, <<"asset", "account", "deposit">>)

WithdrawCalls(kind, items) ==
  CASE kind = "ETHER" ->
         Each(items, <<"withdraw">>) \o Call("drop_account") \o Call("voucher")
    [] kind = "ERC1155_BATCH" ->
         Each(items, <<"asset", "withdraw", "drop_asset">>)
         \o Call("drop_account") \o Call("voucher")
    [] OTHER ->
         Each(items, <<"asset", "withdraw">>)
         \o Call("drop_account") \o Call("drop_asset") \o Call("voucher")

TransferCalls(kind, items) ==
  Call("receiver")
  \o Each(items, IF kind = "ETHER" THEN <<"transfer">> ELSE <<"asset", "transfer">>)
  \o Call("drop_account")

\* advance_state and process_advance.
Calls(r) ==
  CASE r.op = "deposit"  -> DepositCalls(r.kind, r.items)
    [] r.op = "withdraw" -> Call("account") \o WithdrawCalls(r.kind, r.items)
    [] r.op = "transfer" -> Call("account") \o TransferCalls(r.kind, r.items)
    [] OTHER             -> Call("account") \o Call("unknown")

-----------------------------------------------------------------------------
Snapshot ==
  [lassid_to_asset |-> lassid_to_asset, asset_to_lassid |-> asset_to_lassid,
   next_asset_id |-> next_asset_id, base_asset_id |-> base_asset_id,
   base_asset_id_defined |-> base_asset_id_defined,
   laccid_to_account |-> laccid_to_account,
   account_to_laccid |-> account_to_laccid,
   next_account_id |-> next_account_id, table |-> table]

NoRequest == [op |-> "none", kind |-> "ETHER", sender |-> Zero,
              receiver |-> Zero, items |-> <<>>]

\* Handler's locals before it runs.
ForgetLocals ==
  /\ lacc_id' = 0 /\ receiver_lacc_id' = 0 /\ lass_id' = 0
  /\ payee' = Zero

\* The ledger was created by an earlier run of the program (argc > 2).
AppInit ==
  /\ Init
  /\ phase = "starting"
  /\ ether_id = 0
  /\ request = NoRequest
  /\ todo = <<>>
  /\ lacc_id = 0 /\ receiver_lacc_id = 0 /\ lass_id = 0
  /\ asset_type = "BASE" /\ payee = Zero
  /\ vouchers = <<>>
  /\ saved = Snapshot

\* main: the asset id passed to retrieve_asset is an uninitialized variable,
\* any id or (MaxAssets) none that was ever given out.
Start ==
  /\ phase = "starting"
  /\ \E garbage \in AssetIds \cup {MaxAssets} :
       /\ RetrieveAssetById("FIND_OR_CREATE", "BASE", garbage)
       /\ ether_id' = IF garbage \in Assets THEN garbage ELSE base_asset_id'
  /\ phase' = IF result' = "SUCCESS" THEN "idle" ELSE "halted"
  /\ saved' = Snapshot'
  /\ UNCHANGED <<request, todo, locals, vouchers>>

Receive ==
  /\ phase = "idle"
  /\ \E kind \in Kinds : request' \in RequestsOf(kind)
  /\ todo' = Calls(request')
  /\ phase' = "running"
  /\ ForgetLocals
  /\ asset_type' = AssetTypeOf(request'.kind)
  /\ vouchers' = <<>>
  /\ saved' = Snapshot
  /\ UNCHANGED <<ledger, result, ether_id>>

-----------------------------------------------------------------------------
(* The calls. *)

Item == Head(todo).item
Asset == IF request.kind = "ETHER" THEN ether_id ELSE lass_id

NextCall(name) == phase = "running" /\ todo # <<>> /\ Head(todo).name = name

\* An error throws an AppException, which ends the handler.
Proceed ==
  /\ todo' = IF result' = "SUCCESS" THEN Tail(todo) ELSE <<>>
  /\ phase' = IF result' = "SUCCESS" THEN "running" ELSE "failed"
  /\ UNCHANGED <<ether_id, request, saved>>

RetrieveSender ==
  /\ NextCall("account")
  /\ RetrieveAccountByBytes("FIND_OR_CREATE", "WALLET_ADDRESS", request.sender, FALSE)
  /\ IF result' = "SUCCESS"
     THEN /\ lacc_id' = account_to_laccid'[request.sender]
          /\ payee' = laccid_to_account'[lacc_id'].account_id
     ELSE UNCHANGED <<lacc_id, payee>>
  /\ Proceed
  /\ UNCHANGED <<receiver_lacc_id, lass_id, asset_type, vouchers>>

RetrieveReceiver ==
  /\ NextCall("receiver")
  /\ RetrieveAccountByBytes("FIND_OR_CREATE", "ACCOUNT_ID", request.receiver, FALSE)
  /\ receiver_lacc_id' = IF result' = "SUCCESS"
                         THEN account_to_laccid'[request.receiver]
                         ELSE receiver_lacc_id
  /\ Proceed
  /\ UNCHANGED <<lacc_id, payee, lass_id, asset_type, vouchers>>

\* The type of the asset found replaces the one asked for, and is the one
\* asked for the next item of a batch.
RetrieveToken ==
  /\ NextCall("asset")
  /\ RetrieveAssetByToken("FIND_OR_CREATE", asset_type, Item.token, Item.token_id)
  /\ IF result' = "SUCCESS"
     THEN /\ lass_id' = asset_to_lassid'[AssetKey(asset_type, Item.token, Item.token_id)]
          /\ asset_type' = lassid_to_asset'[lass_id'].type
     ELSE UNCHANGED <<lass_id, asset_type>>
  /\ Proceed
  /\ UNCHANGED <<lacc_id, receiver_lacc_id, payee, vouchers>>

DepositItem ==
  /\ NextCall("deposit")
  /\ Deposit(Asset, lacc_id, Item.amount)
  /\ Proceed
  /\ UNCHANGED <<locals, vouchers>>

WithdrawItem ==
  /\ NextCall("withdraw")
  /\ Withdraw(Asset, lacc_id, Item.amount)
  /\ Proceed
  /\ UNCHANGED <<locals, vouchers>>

\* Fault: the accounts are swapped.
TransferItemBack ==
  /\ NextCall("transfer")
  /\ Transfer(Asset, receiver_lacc_id, lacc_id, Item.amount)
  /\ Proceed
  /\ UNCHANGED <<locals, vouchers>>

TransferItem ==
  /\ NextCall("transfer")
  /\ Transfer(Asset, lacc_id, receiver_lacc_id, Item.amount)
  /\ Proceed
  /\ UNCHANGED <<locals, vouchers>>

\* check_and_remove_account, check_and_remove_asset: a FIND, and a removal
\* when nothing is left.
CheckAndRemoveAccount ==
  /\ NextCall("drop_account")
  /\ RetrieveAccountById(
       IF table.n_balances[lacc_id] = 0 THEN "FIND_AND_REMOVE" ELSE "FIND", lacc_id)
  /\ Proceed
  /\ UNCHANGED <<locals, vouchers>>

CheckAndRemoveAsset ==
  /\ NextCall("drop_asset")
  /\ IF lass_id = ether_id
     THEN Return("SUCCESS")
     ELSE RetrieveAssetById(
            IF Supply(lass_id) = 0 THEN "FIND_AND_REMOVE" ELSE "FIND", "ID", lass_id)
  /\ Proceed
  /\ UNCHANGED <<locals, vouchers>>

\* encode_voucher or rollup_emit_voucher can fail.
EmitVoucher ==
  /\ NextCall("voucher")
  /\ \/ /\ Return("SUCCESS")
        /\ vouchers' = <<[payee |-> payee, kind |-> request.kind, items |-> request.items]>>
     \/ Return("EINVAL") /\ UNCHANGED vouchers
  /\ Proceed
  /\ UNCHANGED locals

RefuseUnknown ==
  /\ NextCall("unknown")
  /\ Return("EINVAL")
  /\ Proceed
  /\ UNCHANGED <<locals, vouchers>>

-----------------------------------------------------------------------------
(* The end of a request. *)

EndRequest ==
  /\ phase' = "idle"
  /\ request' = NoRequest
  /\ todo' = <<>>
  /\ ForgetLocals /\ asset_type' = "BASE"
  /\ result' = "SUCCESS"
  /\ UNCHANGED ether_id

Accept ==
  /\ phase = "running" /\ todo = <<>>
  /\ EndRequest
  /\ saved' = Snapshot
  /\ UNCHANGED <<ledger, vouchers>>

\* Fault: the changes made before the failure stay.
KeepChanges == UNCHANGED ledger

\* The machine goes back to where the last accepted request left it.
Revert ==
  /\ lassid_to_asset' = saved.lassid_to_asset
  /\ asset_to_lassid' = saved.asset_to_lassid
  /\ next_asset_id' = saved.next_asset_id
  /\ base_asset_id' = saved.base_asset_id
  /\ base_asset_id_defined' = saved.base_asset_id_defined
  /\ laccid_to_account' = saved.laccid_to_account
  /\ account_to_laccid' = saved.account_to_laccid
  /\ next_account_id' = saved.next_account_id
  /\ table' = saved.table

Reject ==
  /\ phase = "failed"
  /\ EndRequest
  /\ Revert
  /\ saved' = saved
  /\ vouchers' = <<>>

Step ==
  \/ RetrieveSender
  \/ RetrieveReceiver
  \/ RetrieveToken
  \/ DepositItem
  \/ WithdrawItem
  \/ TransferItem
  \/ CheckAndRemoveAccount
  \/ CheckAndRemoveAsset
  \/ EmitVoucher
  \/ RefuseUnknown

AppNext == Start \/ Receive \/ Step \/ Accept \/ Reject

appvars == <<vars, appVars>>

AppSpec == AppInit /\ [][AppNext]_appvars

-----------------------------------------------------------------------------
(* What the application keeps true. *)

\* Between requests the supply of every asset is what its accounts hold,
\* although the map of balances can fill up and stop a transfer half way
\* (ledger_impl.cpp:1704-1705): such a request is not accepted.
ConservedAtRest == phase = "idle" => Conservation

\* The name under which a token is known outside of the ledger.
NameOf(kind, item) ==
  IF kind = "ETHER" THEN <<"BASE", Zero, Zero>>
  ELSE AssetKey(AssetTypeOf(kind), item.token, item.token_id)

Names == UNION {{NameOf(kind, item) : item \in Items(kind)} : kind \in Kinds}

AmountsOf(r) ==
  [n \in Names |->
     MapThenSumSet(LAMBDA i : r.items[i].amount,
                   {i \in DOMAIN r.items : NameOf(r.kind, r.items[i]) = n})]

\* What the owner of these bytes has of a token in a ledger.
Claim(l, bytes, name) ==
  IF /\ bytes \in DOMAIN l.account_to_laccid
     /\ name[1] = "BASE" \/ name \in DOMAIN l.asset_to_lassid
  THEN BalanceOf(l.table, <<IF name[1] = "BASE" THEN ether_id
                            ELSE l.asset_to_lassid[name],
                            l.account_to_laccid[bytes]>>)
  ELSE 0

Busy == phase \in {"running", "failed"}

\* Users see a bank: whatever accounts and assets are created, removed and
\* created again under other ids on the way, an accepted request moves the
\* claims by what it says, its voucher is for the amounts that left the
\* claims of its sender, and a request that failed moved nothing.
Bank == INSTANCE WalletSpec WITH
  Owners <- Bytes32,
  claims <- [k \in Bytes32 \X Names |-> Claim(saved, k[1], k[2])],
  request <- IF Busy THEN <<[op |-> request.op, sender |-> request.sender,
                             receiver |-> request.receiver,
                             amounts |-> AmountsOf(request)]>>
                     ELSE <<>>,
  vouchers <- IF Busy THEN <<>>
              ELSE [i \in DOMAIN vouchers |->
                      [payee |-> vouchers[i].payee, amounts |-> AmountsOf(vouchers[i])]]

RefinesBank == Bank!Spec
=============================================================================
