---------------------------- MODULE LedgerMemory ----------------------------
(***************************************************************************)
(* cma_ledger_memory (src/src/ledger_impl.cpp:597-1723): the ledger that   *)
(* keeps its state in a memory-mapped file or in a caller's buffer.        *)
(*                                                                         *)
(* One action per call of the API (include/libcma/ledger.h).  A call is    *)
(* one step: the library is single threaded and an exception leaves the    *)
(* state as the statements before it left it.  `result` is the code the    *)
(* call returned.  Error paths the code marks "shouldn't be here" have no  *)
(* disjunct: the invariants below show that they cannot be reached.        *)
(***************************************************************************)
EXTENDS BalanceTable

CONSTANTS
  AskedAssets,    \* the asset types the callers use
  AskedAccounts   \* the account types the callers use

ASSUME LedgerAssumption ==
  AskedAssets \subseteq AssetTypes /\ AskedAccounts \subseteq AccountTypes

VARIABLES
  lassid_to_asset,        \* asset id -> what the asset is, and its supply
  asset_to_lassid,        \* token address and id -> asset id
  next_asset_id,
  base_asset_id,
  base_asset_id_defined,
  laccid_to_account,      \* account id -> its type and 32 bytes
  account_to_laccid,      \* 32 bytes -> account id
  next_account_id,
  table,                  \* the balances (module BalanceTable)
  result                  \* the code returned by the last call

assetVars   == <<lassid_to_asset, asset_to_lassid, next_asset_id,
                 base_asset_id, base_asset_id_defined>>
accountVars == <<laccid_to_account, account_to_laccid, next_account_id>>
ledger      == <<assetVars, accountVars, table>>
vars        == <<ledger, result>>

Assets   == DOMAIN lassid_to_asset
Accounts == DOMAIN laccid_to_account

Init ==
  /\ lassid_to_asset = <<>>
  /\ asset_to_lassid = <<>>
  /\ next_asset_id = 0
  /\ base_asset_id = 0
  /\ base_asset_id_defined = FALSE
  /\ laccid_to_account = <<>>
  /\ account_to_laccid = <<>>
  /\ next_account_id = 0
  /\ table = EmptyTable
  /\ result = "SUCCESS"

\* The call ends without changing the ledger.
Return(code) == result' = code /\ UNCHANGED ledger

-----------------------------------------------------------------------------
(* Assets. *)

KeyOfAsset(a) ==
  AssetKey(lassid_to_asset[a].type, lassid_to_asset[a].token_address,
           lassid_to_asset[a].token_id)

AlreadyInserted(type, key) ==
  \/ type = "BASE" /\ base_asset_id_defined
  \/ HasToken(type) /\ key \in DOMAIN asset_to_lassid

\* Fault: the size of the map taken for the next id.
MapSizeAsId == Cardinality(Assets)

RoomForAsset == next_asset_id < MaxAssets
NewAssetId   == next_asset_id

CreateAsset(type, token, token_id) ==
  LET key == AssetKey(type, token, token_id)
      id  == NewAssetId
  IN
  \/ ~RoomForAsset /\ Return("MAX_ASSETS_REACHED")
  \/ /\ RoomForAsset
     /\ AlreadyInserted(type, key)
     /\ Return("INSERTION_ERROR")
  \/ /\ RoomForAsset
     /\ ~AlreadyInserted(type, key)
     /\ lassid_to_asset' =
          Insert(lassid_to_asset, id,
                 [type |-> type, token_address |-> token,
                  token_id |-> token_id, supply |-> 0])
     /\ asset_to_lassid' =
          IF HasToken(type) THEN Insert(asset_to_lassid, key, id)
                            ELSE asset_to_lassid
     /\ next_asset_id' = id + 1
     /\ base_asset_id' = IF type = "BASE" THEN id ELSE base_asset_id
     /\ base_asset_id_defined' = (base_asset_id_defined \/ type = "BASE")
     /\ result' = "SUCCESS"
     /\ UNCHANGED <<accountVars, table>>

\* Faults: a last unit does not count; the key stays.
AssetInUseBeyondOne(a) == lassid_to_asset[a].supply > 1
KeyKept(a) == asset_to_lassid

\* remove_asset looks at the supply, not at the entries of the table.
AssetInUse(a) == lassid_to_asset[a].supply # 0

WithoutKeyOf(a) ==
  IF HasToken(lassid_to_asset[a].type)
  THEN Erase(asset_to_lassid, KeyOfAsset(a)) ELSE asset_to_lassid

RemoveAsset(a) ==
  \/ AssetInUse(a) /\ Return("ASSET_SUPPLY")
  \/ /\ ~AssetInUse(a)
     /\ lassid_to_asset' = Erase(lassid_to_asset, a)
     /\ asset_to_lassid' = WithoutKeyOf(a)
     /\ base_asset_id_defined' =
          (base_asset_id_defined /\ lassid_to_asset[a].type # "BASE")
     /\ result' = "SUCCESS"
     /\ UNCHANGED <<next_asset_id, base_asset_id, accountVars, table>>

\* What the operation asked for does once the look-up has found `a` or not.
RetrieveAsset(op, found, a, type, token, token_id) ==
  \/ op \in {"FIND", "FIND_OR_CREATE"} /\ found /\ Return("SUCCESS")
  \/ op = "FIND_AND_REMOVE" /\ found /\ RemoveAsset(a)
  \/ op \in {"FIND", "FIND_AND_REMOVE"} /\ ~found /\ Return("ASSET_NOT_FOUND")
  \/ op = "FIND_OR_CREATE" /\ ~found /\ CreateAsset(type, token, token_id)
  \/ op = "CREATE" /\ CreateAsset(type, token, token_id)

\* Types ID and BASE: the id is the caller's, except for a FIND of the base.
RetrieveAssetById(op, type, id) ==
  LET sought == IF op = "FIND" /\ type = "BASE" /\ base_asset_id_defined
                THEN base_asset_id ELSE id
  IN  RetrieveAsset(op, sought \in Assets, sought, type, Zero, Zero)

RetrieveAssetByToken(op, type, token, token_id) ==
  LET key == AssetKey(type, token, token_id)
  IN  RetrieveAsset(op, key \in DOMAIN asset_to_lassid, asset_to_lassid[key],
                    type, token, IF HasTokenId(type) THEN token_id ELSE Zero)

-----------------------------------------------------------------------------
(* Accounts. *)

CreateAccount(type, bytes) ==
  LET id == next_account_id
      known == HasAccountKey(type) /\ bytes \in DOMAIN account_to_laccid
  IN
  \/ id >= MaxAccounts /\ Return("MAX_ACCOUNTS_REACHED")
  \/ id < MaxAccounts /\ known /\ Return("INSERTION_ERROR")
  \/ /\ id < MaxAccounts
     /\ ~known
     /\ laccid_to_account' =
          Insert(laccid_to_account, id, [type |-> type, account_id |-> bytes])
     /\ account_to_laccid' =
          IF HasAccountKey(type) THEN Insert(account_to_laccid, bytes, id)
                                 ELSE account_to_laccid
     /\ next_account_id' = id + 1
     /\ result' = "SUCCESS"
     /\ UNCHANGED <<assetVars, table>>

\* Fault: the key goes before the check.
RemoveAccountKeyFirst(u) ==
  /\ account_to_laccid' = [bytes \in {b \in DOMAIN account_to_laccid :
                              account_to_laccid[b] # u} |-> account_to_laccid[bytes]]
  /\ result' = "ACCOUNT_BALANCE"
  /\ UNCHANGED <<laccid_to_account, next_account_id, assetVars, table>>

AccountInUse(u) == table.n_balances[u] > 0

RemoveAccount(u) ==
  \/ AccountInUse(u) /\ Return("ACCOUNT_BALANCE")
  \/ /\ ~AccountInUse(u)
     /\ laccid_to_account' = Erase(laccid_to_account, u)
     /\ account_to_laccid' =
          IF HasAccountKey(laccid_to_account[u].type)
          THEN Erase(account_to_laccid, laccid_to_account[u].account_id)
          ELSE account_to_laccid
     /\ result' = "SUCCESS"
     /\ UNCHANGED <<next_account_id, assetVars, table>>

RetrieveAccount(op, found, u, type, bytes) ==
  \/ op \in {"FIND", "FIND_OR_CREATE"} /\ found /\ Return("SUCCESS")
  \/ op = "FIND_AND_REMOVE" /\ found /\ RemoveAccount(u)
  \/ op \in {"FIND", "FIND_AND_REMOVE"} /\ ~found /\ Return("ACCOUNT_NOT_FOUND")
  \/ op = "FIND_OR_CREATE" /\ ~found /\ CreateAccount(type, bytes)
  \/ op = "CREATE" /\ CreateAccount(type, bytes)

RetrieveAccountById(op, id) ==
  RetrieveAccount(op, id \in Accounts, id, "ID", Zero)

RetrieveAccountByBytes(op, type, bytes, as_struct) ==
  RetrieveAccount(op, bytes \in DOMAIN account_to_laccid,
                  account_to_laccid[bytes],
                  AccountTypeOf(type, bytes, as_struct), bytes)

-----------------------------------------------------------------------------
(* Balances. *)

\* Only a wallet's balance of an asset with a token, or of the base asset,
\* gets a record; every other balance is virtual.
IsWithdrawable(a, u) ==
  /\ lassid_to_asset[a].type # "ID"
  /\ laccid_to_account[u].type = "WALLET_ADDRESS"

HeaderFor(a, u) ==
  [type |-> lassid_to_asset[a].type,
   owner |-> laccid_to_account[u].account_id,
   token_address |-> lassid_to_asset[a].token_address,
   token_id |-> lassid_to_asset[a].token_id]

\* set_account_asset_balance throws MAX_BALANCES_REACHED.
NoRoom(s, a, u) == <<a, u>> \notin Entries(s) /\ Full(s)

SetAccountAssetBalance(s, a, u, amount) ==
  SetBalance(s, <<a, u>>, IsWithdrawable(a, u), HeaderFor(a, u), amount)

Balance(a, u) == BalanceOf(table, <<a, u>>)
Supply(a) == lassid_to_asset[a].supply

SetAssetSupply(a, amount) ==
  lassid_to_asset' =
    [lassid_to_asset EXCEPT ![a] = [lassid_to_asset[a] EXCEPT !.supply = amount]]

UnchangedButSupplyAndTable ==
  UNCHANGED <<asset_to_lassid, next_asset_id, base_asset_id,
              base_asset_id_defined, accountVars>>

\* Fault: what is already supplied is not looked at.
ManyUnits(a, amount) == lassid_to_asset[a].type = "TOKEN_ADDRESS_ID" /\ amount # 1

\* A TOKEN_ADDRESS_ID asset has one unit.
SecondUnit(a, amount) ==
  lassid_to_asset[a].type = "TOKEN_ADDRESS_ID" /\ (Supply(a) # 0 \/ amount # 1)

\* The checks of each call, in the order the code makes them.
DepositError(a, u, amount) ==
  IF amount = 0 THEN "BALANCE_OVERFLOW"
  ELSE IF a \notin Assets THEN "ASSET_NOT_FOUND"
  ELSE IF Supply(a) + amount > MaxAmount THEN "SUPPLY_OVERFLOW"
  ELSE IF SecondUnit(a, amount) THEN "SUPPLY_OVERFLOW"
  ELSE IF u \notin Accounts THEN "ACCOUNT_NOT_FOUND"
  ELSE IF Balance(a, u) + amount > MaxAmount THEN "BALANCE_OVERFLOW"
  ELSE IF NoRoom(table, a, u) THEN "MAX_BALANCES_REACHED"
  ELSE "SUCCESS"

Deposit(a, u, amount) ==
  \/ /\ DepositError(a, u, amount) # "SUCCESS"
     /\ Return(DepositError(a, u, amount))
  \/ /\ DepositError(a, u, amount) = "SUCCESS"
     /\ table' = SetAccountAssetBalance(table, a, u, Balance(a, u) + amount)
     /\ SetAssetSupply(a, Supply(a) + amount)
     /\ result' = "SUCCESS"
     /\ UnchangedButSupplyAndTable

\* Withdrawing zero passes every check.
WithdrawError(a, u, amount) ==
  IF a \notin Assets THEN "ASSET_NOT_FOUND"
  ELSE IF amount > Supply(a) THEN "SUPPLY_OVERFLOW"
  ELSE IF u \notin Accounts THEN "ACCOUNT_NOT_FOUND"
  ELSE IF amount > Balance(a, u) THEN "INSUFFICIENT_FUNDS"
  ELSE IF NoRoom(table, a, u) THEN "MAX_BALANCES_REACHED"
  ELSE "SUCCESS"

Withdraw(a, u, amount) ==
  \/ /\ WithdrawError(a, u, amount) # "SUCCESS"
     /\ Return(WithdrawError(a, u, amount))
  \/ /\ WithdrawError(a, u, amount) = "SUCCESS"
     /\ table' = SetAccountAssetBalance(table, a, u, Balance(a, u) - amount)
     /\ SetAssetSupply(a, Supply(a) - amount)
     /\ result' = "SUCCESS"
     /\ UnchangedButSupplyAndTable

TransferError(a, from, to, amount) ==
  IF a \notin Assets THEN "ASSET_NOT_FOUND"
  ELSE IF from = to THEN "EINVAL"
  ELSE IF from \notin Accounts THEN "ACCOUNT_NOT_FOUND"
  ELSE IF amount > Balance(a, from) THEN "INSUFFICIENT_FUNDS"
  ELSE IF to \notin Accounts THEN "ACCOUNT_NOT_FOUND"
  ELSE IF Balance(a, to) + amount > MaxAmount THEN "BALANCE_OVERFLOW"
  ELSE IF NoRoom(table, a, from) THEN "MAX_BALANCES_REACHED"
  ELSE "SUCCESS"

\* Fault: the sender keeps what it sends.
NotDebited(a, from, amount) == table

\* The table once the sender's balance is set.
Debited(a, from, amount) ==
  SetAccountAssetBalance(table, a, from, Balance(a, from) - amount)

Transfer(a, from, to, amount) ==
  \/ /\ TransferError(a, from, to, amount) # "SUCCESS"
     /\ Return(TransferError(a, from, to, amount))
  \/ /\ TransferError(a, from, to, amount) = "SUCCESS"
     /\ LET debited == Debited(a, from, amount)
        IN  \* The receiver has no entry and gets none: the debit stays.
            \/ /\ NoRoom(debited, a, to)
               /\ table' = debited
               /\ result' = "MAX_BALANCES_REACHED"
            \/ /\ ~NoRoom(debited, a, to)
               /\ table' = SetAccountAssetBalance(debited, a, to,
                                                  Balance(a, to) + amount)
               /\ result' = "SUCCESS"
     /\ UNCHANGED <<assetVars, accountVars>>

\* cma_ledger_reset: clear() leaves both next ids and the base asset's id
\* and flag as they are.
Reset ==
  /\ lassid_to_asset' = <<>>
  /\ asset_to_lassid' = <<>>
  /\ laccid_to_account' = <<>>
  /\ account_to_laccid' = <<>>
  /\ table' = ClearTable(table)
  /\ result' = "SUCCESS"
  /\ UNCHANGED <<next_asset_id, base_asset_id, base_asset_id_defined,
                 next_account_id>>

-----------------------------------------------------------------------------
AssetCall ==
  \E op \in Ops, type \in AskedAssets :
    \/ ~HasToken(type) /\ \E id \in AssetIds : RetrieveAssetById(op, type, id)
    \/ /\ HasToken(type)
       /\ \E token \in Tokens, token_id \in TokenIds :
            RetrieveAssetByToken(op, type, token, token_id)

AccountCall ==
  \E op \in Ops, type \in AskedAccounts :
    \/ type = "ID" /\ \E id \in AccountIds : RetrieveAccountById(op, id)
    \/ /\ HasAccountKey(type)
       /\ \E bytes \in IF type = "WALLET_ADDRESS" THEN Wallets ELSE Bytes32,
             as_struct \in BOOLEAN :
            RetrieveAccountByBytes(op, type, bytes, as_struct)

BalanceCall ==
  \E a \in AssetIds, u \in AccountIds, amount \in Amounts :
    \/ Deposit(a, u, amount)
    \/ Withdraw(a, u, amount)
    \/ \E to \in AccountIds : Transfer(a, u, to, amount)

Next == AssetCall \/ AccountCall \/ BalanceCall \/ Reset

Spec == Init /\ [][Next]_vars

-----------------------------------------------------------------------------
(* What the calls keep true. *)

\* Types of the maps, whose domains grow and shrink.
TypeOK ==
  /\ Assets \subseteq AssetIds
  /\ lassid_to_asset \in [Assets -> AssetRecord]
  /\ asset_to_lassid \in [DOMAIN asset_to_lassid -> AssetIds]
  /\ next_asset_id \in 0..MaxAssets
  /\ base_asset_id \in Nat
  /\ base_asset_id_defined \in BOOLEAN
  /\ Accounts \subseteq AccountIds
  /\ laccid_to_account \in [Accounts -> AccountRecord]
  /\ account_to_laccid \in [DOMAIN account_to_laccid -> AccountIds]
  /\ next_account_id \in 0..MaxAccounts
  /\ TableType(table)
  /\ result \in Errors \cup {"SUCCESS"}

\* The two maps of assets describe the same assets: every key leads to a
\* live asset that has that key, every asset with a token can be found by
\* it, so no two live assets share a key (remove_asset and retrieve_asset
\* rely on it where they throw "shouldn't be here").
AssetKeysMatch ==
  /\ \A key \in DOMAIN asset_to_lassid :
       LET a == asset_to_lassid[key]
       IN  a \in Assets /\ HasToken(lassid_to_asset[a].type) /\ KeyOfAsset(a) = key
  /\ \A a \in Assets :
       HasToken(lassid_to_asset[a].type) =>
         /\ KeyOfAsset(a) \in DOMAIN asset_to_lassid
         /\ asset_to_lassid[KeyOfAsset(a)] = a

\* The same of the two maps of accounts.
AccountKeysMatch ==
  /\ \A bytes \in DOMAIN account_to_laccid :
       LET u == account_to_laccid[bytes]
       IN  /\ u \in Accounts
           /\ HasAccountKey(laccid_to_account[u].type)
           /\ laccid_to_account[u].account_id = bytes
  /\ \A u \in Accounts :
       HasAccountKey(laccid_to_account[u].type) =>
         /\ laccid_to_account[u].account_id \in DOMAIN account_to_laccid
         /\ account_to_laccid[laccid_to_account[u].account_id] = u

\* Ids in use were given out, so that the next id is free (the insert into
\* lassid_to_asset and laccid_to_account cannot fail after the insert into
\* the key map succeeded, ledger_impl.cpp:995-1010).
IdsGivenOut ==
  /\ \A a \in Assets : a < next_asset_id
  /\ \A u \in Accounts : u < next_account_id
  /\ \A k \in Entries(table) : k[1] < next_asset_id

\* A live base asset is the one base_asset_id names: a FIND of the base
\* cannot reach another asset, and there is at most one base asset.
BaseIsUnique ==
  \A a \in Assets :
    lassid_to_asset[a].type = "BASE" => base_asset_id_defined /\ a = base_asset_id

Registry == AssetKeysMatch /\ AccountKeysMatch /\ IdsGivenOut /\ BaseIsUnique

\* The table stays packed and counted under every sequence of calls.
TableOK == WellFormed(table)

\* A live pair's entry is of the kind the asset and the account ask for, and
\* its record carries their type, owner, token and token id.
RecordsMatchRegistry ==
  \A k \in Entries(table) :
    LET a == k[1]
        u == k[2]
    IN  a \in Assets =>
          IF IsWithdrawable(a, u)
          THEN /\ ~IsVirtual(table, k)
               /\ table.balances[At(table, k)].header = HeaderFor(a, u)
          ELSE IsVirtual(table, k)

Held(a) == SumFunction([u \in AccountIds |-> Balance(a, u)])

\* The supply of an asset covers what its accounts hold, whatever failed: every
\* balance can be withdrawn without the supply running short.  Entries of an asset
\* that was removed are worth nothing, although remove_asset only looks at the
\* supply, and none is left of an account that was removed.
SupplyCoversBalances ==
  /\ \A a \in AssetIds : Held(a) <= IF a \in Assets THEN Supply(a) ELSE 0
  /\ \A k \in Entries(table) : k[2] \in Accounts

\* With room for every pair the supply is exactly what the accounts hold.
Conservation == \A a \in Assets : Held(a) = Supply(a)

\* An asset of one token id (ERC-721) is never in two hands, nor twice in one
\* (deposit's check of supply and amount; transfer makes none).
TokenIdIsSingle ==
  \A a \in Assets :
    lassid_to_asset[a].type = "TOKEN_ADDRESS_ID" =>
      /\ Supply(a) <= 1
      /\ \A u, w \in AccountIds :
           Balance(a, u) > 0 /\ Balance(a, w) > 0 => u = w

\* An id is given out once: no id that was ever in use names another asset
\* or account later, not even after a removal or a reset, so an entry an old
\* asset left behind is never read as a balance of a new one.
IdsNeverReused ==
  [][/\ \A a \in Assets' \ Assets : a >= next_asset_id
     /\ \A u \in Accounts' \ Accounts : u >= next_account_id
     /\ next_asset_id' >= next_asset_id
     /\ next_account_id' >= next_account_id]_vars

\* A failed call leaves the ledger as it was, with one exception: a transfer
\* to an account without an entry, when the map is full, keeps the debit
\* (ledger_impl.cpp:1704-1705).  Even then no balance grows, one at most
\* shrinks, and no supply changes.
FailureChangesNothing ==
  [][result' # "SUCCESS" =>
       \/ UNCHANGED ledger
       \/ /\ result' = "MAX_BALANCES_REACHED"
          /\ UNCHANGED <<assetVars, accountVars>>
          /\ \E k \in Key :
               /\ BalanceOf(table', k) <= BalanceOf(table, k)
               /\ \A other \in Key \ {k} :
                    BalanceOf(table', other) = BalanceOf(table, other)]_vars

\* "If it didn't find the asset and creation type is set with one of the
\* options, create it" (include/libcma/ledger.h:117): with no base asset
\* live, FIND_OR_CREATE of the base asset succeeds unless ids ran out.
MissingBaseIsCreated ==
  [][(\E id \in AssetIds : RetrieveAssetById("FIND_OR_CREATE", "BASE", id))
       => \/ result' \in {"SUCCESS", "MAX_ASSETS_REACHED"}
          \/ \E a \in Assets : lassid_to_asset[a].type = "BASE"]_vars

\* With room for every pair the ledger is the abstract one: each call takes
\* effect as a whole or not at all, whatever moves inside the table, and the
\* checks on the stored supply amount to checks on the total of the balances.
Abstract == INSTANCE LedgerSpec WITH
  single <- [a \in Assets |-> lassid_to_asset[a].type = "TOKEN_ADDRESS_ID"],
  accounts <- Accounts,
  balance <- [k \in Key |-> BalanceOf(table, k)]

RefinesLedger == Abstract!Spec
=============================================================================
