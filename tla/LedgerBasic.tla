----------------------------- MODULE LedgerBasic -----------------------------
(***************************************************************************)
(* cma_ledger_basic (src/src/ledger_impl.cpp:50-583): the ledger that      *)
(* keeps its state in the process, in five std::unordered_map.  It offers  *)
(* the API of cma_ledger_memory with fewer features: no limits, no base    *)
(* asset, no removal, and an id is the size of the map it goes into.       *)
(***************************************************************************)
EXTENDS LedgerTypes

CONSTANTS
  AskedAssets,    \* the asset types the callers use
  AskedAccounts   \* the account types the callers use

ASSUME LedgerAssumption ==
  AskedAssets \subseteq AssetTypes /\ AskedAccounts \subseteq AccountTypes

VARIABLES
  lassid_to_asset,        \* asset id -> what the asset is, and its supply
  asset_to_lassid,        \* token address and id -> asset id
  laccid_to_account,      \* account id -> its type and 32 bytes
  account_to_laccid,      \* 32 bytes -> account id
  account_asset_balance,  \* asset and account id -> amount
  result                  \* the code returned by the last call

assetVars   == <<lassid_to_asset, asset_to_lassid>>
accountVars == <<laccid_to_account, account_to_laccid>>
ledger      == <<assetVars, accountVars, account_asset_balance>>
vars        == <<ledger, result>>

Assets   == DOMAIN lassid_to_asset
Accounts == DOMAIN laccid_to_account
Entries  == DOMAIN account_asset_balance

Init ==
  /\ lassid_to_asset = <<>>
  /\ asset_to_lassid = <<>>
  /\ laccid_to_account = <<>>
  /\ account_to_laccid = <<>>
  /\ account_asset_balance = <<>>
  /\ result = "SUCCESS"

\* The call ends without changing the ledger.
Return(code) == result' = code /\ UNCHANGED ledger

-----------------------------------------------------------------------------
(* Assets. *)

\* Fault: the size of the map of keys, which has no asset of type ID.
CountOfKeys == Cardinality(DOMAIN asset_to_lassid)

get_asset_count   == Cardinality(Assets)
get_account_count == Cardinality(Accounts)

\* MaxAssets bounds the model; the code has no limit.
CreateAsset(type, token, token_id) ==
  LET key   == AssetKey(type, token, token_id)
      known == HasToken(type) /\ key \in DOMAIN asset_to_lassid
      id    == get_asset_count
  IN
  \/ known /\ Return("INSERTION_ERROR")
  \/ /\ ~known
     /\ id < MaxAssets
     /\ lassid_to_asset' =
          Insert(lassid_to_asset, id,
                 [type |-> type, token_address |-> token,
                  token_id |-> token_id, supply |-> 0])
     /\ asset_to_lassid' =
          IF HasToken(type) THEN Insert(asset_to_lassid, key, id)
                            ELSE asset_to_lassid
     /\ result' = "SUCCESS"
     /\ UNCHANGED <<accountVars, account_asset_balance>>

\* FIND_AND_REMOVE is none of the operations the code looks for: the call
\* looks up nothing, removes nothing and returns success.
RetrieveAsset(op, found, type, token, token_id) ==
  \/ op \in {"FIND", "FIND_OR_CREATE"} /\ found /\ Return("SUCCESS")
  \/ op = "FIND" /\ ~found /\ Return("ASSET_NOT_FOUND")
  \/ /\ op = "CREATE" \/ (op = "FIND_OR_CREATE" /\ ~found)
     /\ CreateAsset(type, token, token_id)
  \/ op = "FIND_AND_REMOVE" /\ Return("SUCCESS")

RetrieveAssetById(op, id) ==
  RetrieveAsset(op, id \in Assets, "ID", Zero, Zero)

RetrieveAssetByToken(op, type, token, token_id) ==
  RetrieveAsset(op, AssetKey(type, token, token_id) \in DOMAIN asset_to_lassid,
                type, token, IF HasTokenId(type) THEN token_id ELSE Zero)

-----------------------------------------------------------------------------
(* Accounts. *)

\* MaxAccounts bounds the model; the code has no limit.
CreateAccount(type, bytes) ==
  LET known == HasAccountKey(type) /\ bytes \in DOMAIN account_to_laccid
      id    == get_account_count
  IN
  \/ known /\ Return("INSERTION_ERROR")
  \/ /\ ~known
     /\ id < MaxAccounts
     /\ laccid_to_account' =
          Insert(laccid_to_account, id, [type |-> type, account_id |-> bytes])
     /\ account_to_laccid' =
          IF HasAccountKey(type) THEN Insert(account_to_laccid, bytes, id)
                                 ELSE account_to_laccid
     /\ result' = "SUCCESS"
     /\ UNCHANGED <<assetVars, account_asset_balance>>

RetrieveAccount(op, found, type, bytes) ==
  \/ op \in {"FIND", "FIND_OR_CREATE"} /\ found /\ Return("SUCCESS")
  \/ op = "FIND" /\ ~found /\ Return("ACCOUNT_NOT_FOUND")
  \/ /\ op = "CREATE" \/ (op = "FIND_OR_CREATE" /\ ~found)
     /\ CreateAccount(type, bytes)
  \/ op = "FIND_AND_REMOVE" /\ Return("SUCCESS")

RetrieveAccountById(op, id) ==
  RetrieveAccount(op, id \in Accounts, "ID", Zero)

RetrieveAccountByBytes(op, type, bytes, as_struct) ==
  RetrieveAccount(op, bytes \in DOMAIN account_to_laccid,
                  AccountTypeOf(type, bytes, as_struct), bytes)

-----------------------------------------------------------------------------
(* Balances. *)

\* get_account_asset_balance: no entry reads as zero.
Balance(a, u) ==
  IF <<a, u>> \in Entries THEN account_asset_balance[<<a, u>>] ELSE 0

Supply(a) == lassid_to_asset[a].supply

\* set_account_asset_balance: an entry stays once it is there, zero or not.
SetBalance(balances, a, u, amount) == Insert(balances, <<a, u>>, amount)

SetAssetSupply(a, amount) ==
  lassid_to_asset' = [lassid_to_asset EXCEPT ![a] = [@ EXCEPT !.supply = amount]]

\* amount_checked_add of the supply.
SupplyFits(a, amount) == Supply(a) + amount <= MaxAmount

\* A TOKEN_ADDRESS_ID asset has one unit.
SecondUnit(a, amount) ==
  lassid_to_asset[a].type = "TOKEN_ADDRESS_ID" /\ (Supply(a) # 0 \/ amount # 1)

\* The checks of each call, in the order the code makes them.
DepositError(a, u, amount) ==
  IF amount = 0 THEN "BALANCE_OVERFLOW"
  ELSE IF a \notin Assets THEN "ASSET_NOT_FOUND"
  ELSE IF ~SupplyFits(a, amount) THEN "SUPPLY_OVERFLOW"
  ELSE IF SecondUnit(a, amount) THEN "SUPPLY_OVERFLOW"
  ELSE IF u \notin Accounts THEN "ACCOUNT_NOT_FOUND"
  ELSE IF Balance(a, u) + amount > MaxAmount THEN "BALANCE_OVERFLOW"
  ELSE "SUCCESS"

Deposit(a, u, amount) ==
  \/ /\ DepositError(a, u, amount) # "SUCCESS"
     /\ Return(DepositError(a, u, amount))
  \/ /\ DepositError(a, u, amount) = "SUCCESS"
     /\ account_asset_balance' =
          SetBalance(account_asset_balance, a, u, Balance(a, u) + amount)
     /\ SetAssetSupply(a, Supply(a) + amount)
     /\ result' = "SUCCESS"
     /\ UNCHANGED <<asset_to_lassid, accountVars>>

WithdrawError(a, u, amount) ==
  IF a \notin Assets THEN "ASSET_NOT_FOUND"
  ELSE IF amount > Supply(a) THEN "SUPPLY_OVERFLOW"
  ELSE IF u \notin Accounts THEN "ACCOUNT_NOT_FOUND"
  ELSE IF amount > Balance(a, u) THEN "INSUFFICIENT_FUNDS"
  ELSE "SUCCESS"

Withdraw(a, u, amount) ==
  \/ /\ WithdrawError(a, u, amount) # "SUCCESS"
     /\ Return(WithdrawError(a, u, amount))
  \/ /\ WithdrawError(a, u, amount) = "SUCCESS"
     /\ account_asset_balance' =
          SetBalance(account_asset_balance, a, u, Balance(a, u) - amount)
     /\ SetAssetSupply(a, Supply(a) - amount)
     /\ result' = "SUCCESS"
     /\ UNCHANGED <<asset_to_lassid, accountVars>>

TransferError(a, from, to, amount) ==
  IF a \notin Assets THEN "ASSET_NOT_FOUND"
  ELSE IF from = to THEN "EINVAL"
  ELSE IF from \notin Accounts THEN "ACCOUNT_NOT_FOUND"
  ELSE IF amount > Balance(a, from) THEN "INSUFFICIENT_FUNDS"
  ELSE IF to \notin Accounts THEN "ACCOUNT_NOT_FOUND"
  ELSE IF Balance(a, to) + amount > MaxAmount THEN "BALANCE_OVERFLOW"
  ELSE "SUCCESS"

\* Fault: both new balances are computed and the sender's is not written.
OnlyCredited(a, from, to, amount) ==
  SetBalance(account_asset_balance, a, to, Balance(a, to) + amount)

Moved(a, from, to, amount) ==
  SetBalance(SetBalance(account_asset_balance, a, from, Balance(a, from) - amount),
             a, to, Balance(a, to) + amount)

Transfer(a, from, to, amount) ==
  \/ /\ TransferError(a, from, to, amount) # "SUCCESS"
     /\ Return(TransferError(a, from, to, amount))
  \/ /\ TransferError(a, from, to, amount) = "SUCCESS"
     /\ account_asset_balance' = Moved(a, from, to, amount)
     /\ result' = "SUCCESS"
     /\ UNCHANGED <<assetVars, accountVars>>

\* Fault: the balances stay.
BalancesKept == account_asset_balance

ClearedBalances == <<>>

\* cma_ledger_reset: clear() empties the five maps, and ids start again at 0.
Reset ==
  /\ lassid_to_asset' = <<>>
  /\ asset_to_lassid' = <<>>
  /\ laccid_to_account' = <<>>
  /\ account_to_laccid' = <<>>
  /\ account_asset_balance' = ClearedBalances
  /\ result' = "SUCCESS"

-----------------------------------------------------------------------------
AssetCall ==
  \E op \in Ops, type \in AskedAssets :
    \/ type = "ID" /\ \E id \in AssetIds : RetrieveAssetById(op, id)
    \/ type = "BASE" /\ Return("EINVAL")
    \/ /\ HasToken(type)
       /\ \E token \in Tokens, token_id \in TokenIds :
            RetrieveAssetByToken(op, type, token, token_id)

AccountCall ==
  \E op \in Ops, type \in AskedAccounts :
    \/ type = "ID" /\ \E id \in AccountIds : RetrieveAccountById(op, id)
    \/ /\ HasAccountKey(type)
       /\ \E bytes \in IF type = "WALLET_ADDRESS" THEN Wallets ELSE Bytes32,
             as_struct \in BOOLEAN :
            RetrieveAccountByBytes(op, type, bytes, as_struct)

BalanceCall ==
  \E a \in AssetIds, u \in AccountIds, amount \in Amounts :
    \/ Deposit(a, u, amount)
    \/ Withdraw(a, u, amount)
    \/ \E to \in AccountIds : Transfer(a, u, to, amount)

Next == AssetCall \/ AccountCall \/ BalanceCall \/ Reset

Spec == Init /\ [][Next]_vars

-----------------------------------------------------------------------------
(* What the calls keep true. *)

\* Ids in use are those below the size of their map, so that the size is a
\* free id: the insert by id, which comes after the insert of the key
\* (ledger_impl.cpp:183, 198), cannot fail.
IdsAreFree ==
  /\ get_asset_count \notin Assets /\ Assets = 0..(Cardinality(Assets) - 1)
  /\ get_account_count \notin Accounts /\ Accounts = 0..(Cardinality(Accounts) - 1)

\* Each key leads to the one asset or account that has it, and back.
KeysMatch ==
  /\ \A key \in DOMAIN asset_to_lassid :
       LET a == asset_to_lassid[key]
       IN  /\ a \in Assets
           /\ HasToken(lassid_to_asset[a].type)
           /\ key = AssetKey(lassid_to_asset[a].type,
                             lassid_to_asset[a].token_address,
                             lassid_to_asset[a].token_id)
  /\ \A a \in Assets :
       HasToken(lassid_to_asset[a].type) =>
         \E key \in DOMAIN asset_to_lassid : asset_to_lassid[key] = a
  /\ \A bytes \in DOMAIN account_to_laccid :
       LET u == account_to_laccid[bytes]
       IN  u \in Accounts /\ laccid_to_account[u].account_id = bytes

Registry == IdsAreFree /\ KeysMatch

\* Every balance belongs to a live asset and a live account: ids start again at
\* zero after a reset, so a balance left behind would pass to others.  And the
\* stored supply of an asset is what its accounts hold.
NoOrphanBalance ==
  /\ \A k \in Entries : k[1] \in Assets /\ k[2] \in Accounts
  /\ \A a \in Assets :
       SumFunction([u \in AccountIds |-> Balance(a, u)]) = Supply(a)

\* The in-process ledger is the abstract ledger: each call takes effect as a
\* whole or not at all, and ids given out twice never mix two balances.
Abstract == INSTANCE LedgerSpec WITH
  single <- [a \in Assets |-> lassid_to_asset[a].type = "TOKEN_ADDRESS_ID"],
  accounts <- Accounts,
  balance <- [k \in Key |-> Balance(k[1], k[2])]

RefinesLedger == Abstract!Spec
=============================================================================
