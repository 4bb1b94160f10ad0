------------------------- MODULE LedgerBasicProofs -------------------------
(***************************************************************************)
(* The in-process ledger, for every number of assets and accounts: the     *)
(* size of a map is a free id, keys lead where they should, every balance  *)
(* has an asset and an account, the supply is what the accounts hold, and  *)
(* the calls are those of the abstract ledger.                             *)
(***************************************************************************)
EXTENDS LedgerBasic, FiniteSetTheorems, SumLemmas, TLAPS

\* The ids of a map are the numbers below its size.
Dense(ids) == \E n \in Nat : ids = 0..(n - 1)

Owned == \A k \in Entries : k[1] \in Assets /\ k[2] \in Accounts

\* The records of the assets have their types, which a new supply keeps.
IInv ==
  /\ Dense(Assets) /\ Dense(Accounts)
  /\ lassid_to_asset \in [Assets -> AssetRecord]
  /\ KeysMatch
  /\ Owned

-----------------------------------------------------------------------------
LEMMA SizeOfDense ==
  ASSUME NEW ids, Dense(ids)
  PROVE  /\ Cardinality(ids) \in Nat
         /\ ids = 0..(Cardinality(ids) - 1)
         /\ Cardinality(ids) \notin ids
         /\ Dense({Cardinality(ids)} \cup ids)
  <1>1. PICK n \in Nat : ids = 0..(n - 1)
    BY DEF Dense
  <1>2. Cardinality(ids) = n
    BY <1>1, FS_Interval
  <1>3. {n} \cup ids = 0..((n + 1) - 1)
    BY <1>1
  <1>4. Dense({n} \cup ids)
    BY <1>3 DEF Dense
  <1>5. n \notin 0..(n - 1)
    OBVIOUS
  <1>6. QED
    BY <1>1, <1>2, <1>4, <1>5

LEMMA IInvRegistry == IInv => Registry
  <1> SUFFICES ASSUME IInv PROVE Registry
    OBVIOUS
  <1>1. Dense(Assets) /\ Dense(Accounts) /\ KeysMatch
    BY DEF IInv
  <1>2. IdsAreFree
    BY <1>1, SizeOfDense DEF IdsAreFree, get_asset_count, get_account_count
  <1>3. QED
    BY <1>1, <1>2 DEF Registry

\* Maps without entries, at first and after a reset.
LEMMA EmptyIInv ==
  ASSUME Assets = {}, Accounts = {}, Entries = {},
         DOMAIN asset_to_lassid = {}, DOMAIN account_to_laccid = {},
         lassid_to_asset \in [Assets -> AssetRecord]
  PROVE  IInv
  <1>1. {} = 0..(0 - 1)
    OBVIOUS
  <1>2. Dense({})
    BY <1>1 DEF Dense
  <1>3. KeysMatch
    BY DEF KeysMatch
  <1>4. QED
    BY <1>2, <1>3 DEF IInv, Owned

LEMMA InitIInv == Init => IInv
  <1> SUFFICES ASSUME Init PROVE IInv
    OBVIOUS
  <1>1. /\ Assets = {} /\ Accounts = {} /\ Entries = {}
        /\ DOMAIN asset_to_lassid = {} /\ DOMAIN account_to_laccid = {}
        /\ lassid_to_asset \in [Assets -> AssetRecord]
    BY DEF Init, Assets, Accounts, Entries
  <1>2. QED
    BY <1>1, EmptyIInv

LEMMA SameIInv == IInv /\ UNCHANGED ledger => IInv'
  <1> SUFFICES ASSUME IInv, UNCHANGED ledger PROVE IInv'
    OBVIOUS
  <1>1. /\ lassid_to_asset' = lassid_to_asset /\ asset_to_lassid' = asset_to_lassid
        /\ laccid_to_account' = laccid_to_account
        /\ account_to_laccid' = account_to_laccid
        /\ account_asset_balance' = account_asset_balance
    BY DEF ledger, assetVars, accountVars
  <1>2. /\ Assets' = Assets /\ Accounts' = Accounts /\ Entries' = Entries
        /\ KeysMatch'
    BY <1>1 DEF Assets, Accounts, Entries, KeysMatch, IInv
  <1>3. QED
    BY <1>1, <1>2 DEF IInv, Owned

-----------------------------------------------------------------------------
(* A new asset: its id is free, so that the insert loses nothing, and its    *)
(* key is one that no asset has.                                             *)
LEMMA CreateAssetKeeps ==
  ASSUME IInv, NEW type \in AssetTypes, NEW token \in Tokens \cup {Zero},
         NEW token_id \in TokenIds \cup {Zero}, CreateAsset(type, token, token_id)
  PROVE  IInv'
  <1> DEFINE key == AssetKey(type, token, token_id)
             id  == get_asset_count
             new == [type |-> type, token_address |-> token,
                     token_id |-> token_id, supply |-> 0]
  <1>1. CASE Return("INSERTION_ERROR")
    BY <1>1, SameIInv DEF Return
  <1>2. CASE /\ ~(HasToken(type) /\ key \in DOMAIN asset_to_lassid)
             /\ lassid_to_asset' = Insert(lassid_to_asset, id, new)
             /\ asset_to_lassid' = IF HasToken(type) THEN Insert(asset_to_lassid, key, id)
                                                     ELSE asset_to_lassid
             /\ UNCHANGED <<accountVars, account_asset_balance>>
    <2>1. /\ id \notin Assets
          /\ Dense({id} \cup Assets)
      BY SizeOfDense DEF IInv, get_asset_count
    <2>2. new \in AssetRecord
      BY TypesAssumption DEF AssetRecord, Amounts
    <2>3. /\ new.type = type
          /\ HasToken(new.type) => key = AssetKey(new.type, new.token_address, new.token_id)
      OBVIOUS
    <2> HIDE DEF key, id, new
    <2>4. /\ Assets' = {id} \cup Assets
          /\ lassid_to_asset'[id] = new
          /\ \A a \in Assets : lassid_to_asset'[a] = lassid_to_asset[a]
      BY <1>2, <2>1 DEF Insert, Assets
    <2>5. lassid_to_asset' \in [Assets' -> AssetRecord]
      BY <1>2, <2>1, <2>2, <2>4 DEF Insert, IInv, Assets
    <2>6. /\ Accounts' = Accounts /\ Entries' = Entries
          /\ laccid_to_account' = laccid_to_account
          /\ account_to_laccid' = account_to_laccid
      BY <1>2 DEF Accounts, Entries, accountVars
    <2>7. /\ DOMAIN asset_to_lassid' = IF HasToken(type) THEN {key} \cup DOMAIN asset_to_lassid
                                                         ELSE DOMAIN asset_to_lassid
          /\ HasToken(type) => asset_to_lassid'[key] = id
          /\ \A j \in DOMAIN asset_to_lassid : asset_to_lassid'[j] = asset_to_lassid[j]
      BY <1>2 DEF Insert
    <2>8. ASSUME NEW j \in DOMAIN asset_to_lassid'
          PROVE  LET a == asset_to_lassid'[j]
                 IN  /\ a \in Assets'
                     /\ HasToken(lassid_to_asset'[a].type)
                     /\ j = AssetKey(lassid_to_asset'[a].type,
                                     lassid_to_asset'[a].token_address,
                                     lassid_to_asset'[a].token_id)
      <3>1. CASE j \in DOMAIN asset_to_lassid
        BY <2>4, <2>7, <3>1 DEF IInv, KeysMatch
      <3>2. CASE j \notin DOMAIN asset_to_lassid
        <4>1. HasToken(type) /\ j = key
          BY <2>7, <2>8, <3>2
        <4>2. QED
          BY <2>3, <2>4, <2>7, <4>1
      <3>3. QED
        BY <3>1, <3>2
    <2>9. ASSUME NEW a \in Assets', HasToken(lassid_to_asset'[a].type)
          PROVE  \E j \in DOMAIN asset_to_lassid' : asset_to_lassid'[j] = a
      <3>1. CASE a \in Assets
        BY <2>4, <2>7, <2>9, <3>1 DEF IInv, KeysMatch
      <3>2. CASE a = id
        BY <2>3, <2>4, <2>7, <2>9, <3>2
      <3>3. QED
        BY <2>4, <3>1, <3>2
    <2>10. KeysMatch'
      BY <2>6, <2>8, <2>9 DEF IInv, KeysMatch
    <2>11. Owned'
      BY <2>4, <2>6 DEF IInv, Owned
    <2>12. QED
      BY <2>1, <2>4, <2>5, <2>6, <2>10, <2>11 DEF IInv
  <1>3. QED
    BY <1>1, <1>2 DEF CreateAsset

LEMMA CreateAccountKeeps ==
  ASSUME IInv, NEW type, NEW bytes, CreateAccount(type, bytes)
  PROVE  IInv'
  <1> DEFINE id  == get_account_count
             new == [type |-> type, account_id |-> bytes]
  <1>1. CASE Return("INSERTION_ERROR")
    BY <1>1, SameIInv DEF Return
  <1>2. CASE /\ ~(HasAccountKey(type) /\ bytes \in DOMAIN account_to_laccid)
             /\ laccid_to_account' = Insert(laccid_to_account, id, new)
             /\ account_to_laccid' =
                  IF HasAccountKey(type) THEN Insert(account_to_laccid, bytes, id)
                                         ELSE account_to_laccid
             /\ UNCHANGED <<assetVars, account_asset_balance>>
    <2>1. /\ id \notin Accounts
          /\ Dense({id} \cup Accounts)
      BY SizeOfDense DEF IInv, get_account_count
    <2>2. new.account_id = bytes
      OBVIOUS
    <2> HIDE DEF id, new
    <2>3. /\ Accounts' = {id} \cup Accounts
          /\ laccid_to_account'[id] = new
          /\ \A u \in Accounts : laccid_to_account'[u] = laccid_to_account[u]
      BY <1>2, <2>1 DEF Insert, Accounts
    <2>4. /\ Assets' = Assets /\ Entries' = Entries
          /\ lassid_to_asset' = lassid_to_asset /\ asset_to_lassid' = asset_to_lassid
      BY <1>2 DEF Assets, Entries, assetVars
    <2>5. /\ DOMAIN account_to_laccid' =
               IF HasAccountKey(type) THEN {bytes} \cup DOMAIN account_to_laccid
                                      ELSE DOMAIN account_to_laccid
          /\ HasAccountKey(type) => account_to_laccid'[bytes] = id
          /\ \A j \in DOMAIN account_to_laccid :
               account_to_laccid'[j] = account_to_laccid[j]
      BY <1>2 DEF Insert
    <2>6. ASSUME NEW j \in DOMAIN account_to_laccid'
          PROVE  /\ account_to_laccid'[j] \in Accounts'
                 /\ laccid_to_account'[account_to_laccid'[j]].account_id = j
      <3>1. CASE j \in DOMAIN account_to_laccid
        BY <2>3, <2>5, <3>1 DEF IInv, KeysMatch
      <3>2. CASE j \notin DOMAIN account_to_laccid
        <4>1. HasAccountKey(type) /\ j = bytes
          BY <2>5, <2>6, <3>2
        <4>2. QED
          BY <2>2, <2>3, <2>5, <4>1
      <3>3. QED
        BY <3>1, <3>2
    <2>7. KeysMatch'
      BY <2>4, <2>6 DEF IInv, KeysMatch, Assets
    <2>8. Owned'
      BY <2>3, <2>4 DEF IInv, Owned
    <2>9. QED
      BY <2>1, <2>3, <2>4, <2>7, <2>8 DEF IInv
  <1>3. QED
    BY <1>1, <1>2 DEF CreateAccount

-----------------------------------------------------------------------------
(* Balances: entries only for what is there, and only supplies change.       *)
LEMMA SetKeeps ==
  ASSUME IInv, NEW a \in Assets, NEW u \in Accounts, NEW amount,
         account_asset_balance' = SetBalance(account_asset_balance, a, u, amount)
  PROVE  \A k \in Entries' : k[1] \in Assets /\ k[2] \in Accounts
  <1>1. Entries' = {<<a, u>>} \cup Entries
    BY DEF SetBalance, Insert, Entries
  <1>2. QED
    BY <1>1 DEF IInv, Owned

LEMMA SupplyKeeps ==
  ASSUME IInv, NEW a \in Assets, NEW supply \in Amounts, SetAssetSupply(a, supply),
         UNCHANGED <<asset_to_lassid, accountVars>>,
         \A k \in Entries' : k[1] \in Assets /\ k[2] \in Accounts
  PROVE  IInv'
  <1>1. \A b \in Assets : lassid_to_asset[b] \in AssetRecord
    BY DEF IInv
  <1>2. /\ Assets' = Assets
        /\ lassid_to_asset' \in [Assets' -> AssetRecord]
        /\ \A b \in Assets :
             /\ lassid_to_asset'[b].type = lassid_to_asset[b].type
             /\ lassid_to_asset'[b].token_address = lassid_to_asset[b].token_address
             /\ lassid_to_asset'[b].token_id = lassid_to_asset[b].token_id
    BY <1>1 DEF SetAssetSupply, IInv, Assets, AssetRecord
  <1>3. /\ asset_to_lassid' = asset_to_lassid
        /\ laccid_to_account' = laccid_to_account
        /\ account_to_laccid' = account_to_laccid
        /\ Accounts' = Accounts
    BY DEF accountVars, Accounts
  <1>4. KeysMatch'
    BY <1>2, <1>3 DEF IInv, KeysMatch
  <1>5. QED
    BY <1>2, <1>3, <1>4 DEF IInv, Owned

LEMMA SupplyType == IInv => \A a \in Assets : Supply(a) \in Amounts
  BY DEF IInv, Supply, AssetRecord

LEMMA DepositKeeps ==
  ASSUME IInv, NEW a \in AssetIds, NEW u \in AccountIds, NEW amount \in Amounts,
         Deposit(a, u, amount)
  PROVE  IInv'
  <1>1. CASE Return(DepositError(a, u, amount))
    BY <1>1, SameIInv DEF Return
  <1>2. CASE /\ DepositError(a, u, amount) = "SUCCESS"
             /\ account_asset_balance' =
                  SetBalance(account_asset_balance, a, u, Balance(a, u) + amount)
             /\ SetAssetSupply(a, Supply(a) + amount)
             /\ UNCHANGED <<asset_to_lassid, accountVars>>
    <2>1. a \in Assets /\ u \in Accounts /\ SupplyFits(a, amount)
      BY <1>2 DEF DepositError
    <2>2. Supply(a) + amount \in Amounts
      BY <2>1, SupplyType, TypesAssumption DEF SupplyFits, Amounts
    <2>3. \A k \in Entries' : k[1] \in Assets /\ k[2] \in Accounts
      BY <1>2, <2>1, SetKeeps
    <2>4. QED
      BY <1>2, <2>1, <2>2, <2>3, SupplyKeeps
  <1>3. QED
    BY <1>1, <1>2 DEF Deposit

LEMMA WithdrawKeeps ==
  ASSUME IInv, NEW a \in AssetIds, NEW u \in AccountIds, NEW amount \in Amounts,
         Withdraw(a, u, amount)
  PROVE  IInv'
  <1>1. CASE Return(WithdrawError(a, u, amount))
    BY <1>1, SameIInv DEF Return
  <1>2. CASE /\ WithdrawError(a, u, amount) = "SUCCESS"
             /\ account_asset_balance' =
                  SetBalance(account_asset_balance, a, u, Balance(a, u) - amount)
             /\ SetAssetSupply(a, Supply(a) - amount)
             /\ UNCHANGED <<asset_to_lassid, accountVars>>
    <2>1. a \in Assets /\ u \in Accounts /\ ~(amount > Supply(a))
      BY <1>2 DEF WithdrawError
    <2>2. Supply(a) - amount \in Amounts
      BY <2>1, SupplyType, TypesAssumption DEF Amounts
    <2>3. \A k \in Entries' : k[1] \in Assets /\ k[2] \in Accounts
      BY <1>2, <2>1, SetKeeps
    <2>4. QED
      BY <1>2, <2>1, <2>2, <2>3, SupplyKeeps
  <1>3. QED
    BY <1>1, <1>2 DEF Withdraw

LEMMA TransferKeeps ==
  ASSUME IInv, NEW a \in AssetIds, NEW from \in AccountIds, NEW to \in AccountIds,
         NEW amount \in Amounts, Transfer(a, from, to, amount)
  PROVE  IInv'
  <1>1. CASE Return(TransferError(a, from, to, amount))
    BY <1>1, SameIInv DEF Return
  <1>2. CASE /\ TransferError(a, from, to, amount) = "SUCCESS"
             /\ account_asset_balance' = Moved(a, from, to, amount)
             /\ UNCHANGED <<assetVars, accountVars>>
    <2>1. a \in Assets /\ from \in Accounts /\ to \in Accounts
      BY <1>2 DEF TransferError
    <2>2. Entries' = {<<a, to>>} \cup ({<<a, from>>} \cup Entries)
      BY <1>2 DEF Moved, SetBalance, Insert, Entries
    <2>3. /\ Assets' = Assets /\ Accounts' = Accounts
          /\ lassid_to_asset' = lassid_to_asset /\ asset_to_lassid' = asset_to_lassid
          /\ laccid_to_account' = laccid_to_account
          /\ account_to_laccid' = account_to_laccid
      BY <1>2 DEF assetVars, accountVars, Assets, Accounts
    <2>4. Owned'
      BY <2>1, <2>2, <2>3 DEF IInv, Owned
    <2>5. KeysMatch'
      BY <2>3 DEF IInv, KeysMatch
    <2>6. QED
      BY <2>3, <2>4, <2>5 DEF IInv
  <1>3. QED
    BY <1>1, <1>2 DEF Transfer

-----------------------------------------------------------------------------
(* The calls. *)
LEMMA AssetCallKeeps == ASSUME IInv, AssetCall PROVE IInv'
  <1>1. ASSUME NEW op \in Ops, NEW found, NEW type \in AssetTypes,
               NEW token \in Tokens \cup {Zero}, NEW token_id \in TokenIds \cup {Zero},
               RetrieveAsset(op, found, type, token, token_id)
        PROVE  IInv'
    BY <1>1, CreateAssetKeeps, SameIInv DEF RetrieveAsset, Return
  <1>2. ASSUME NEW op \in Ops, NEW type \in AskedAssets, NEW id \in AssetIds,
               RetrieveAssetById(op, id)
        PROVE  IInv'
    <2>1. "ID" \in AssetTypes
      BY DEF AssetTypes
    <2>2. QED
      BY <1>1, <1>2, <2>1 DEF RetrieveAssetById
  <1>3. ASSUME NEW op \in Ops, NEW type \in AskedAssets, NEW token \in Tokens,
               NEW token_id \in TokenIds, RetrieveAssetByToken(op, type, token, token_id)
        PROVE  IInv'
    <2>1. type \in AssetTypes
      BY LedgerAssumption
    <2>2. (IF HasTokenId(type) THEN token_id ELSE Zero) \in TokenIds \cup {Zero}
      OBVIOUS
    <2>3. QED
      BY <1>1, <1>3, <2>1, <2>2 DEF RetrieveAssetByToken
  <1>4. Return("EINVAL") => IInv'
    BY SameIInv DEF Return
  <1>5. QED
    BY <1>2, <1>3, <1>4 DEF AssetCall

LEMMA AccountCallKeeps == ASSUME IInv, AccountCall PROVE IInv'
  <1>1. ASSUME NEW op, NEW found, NEW type, NEW bytes, RetrieveAccount(op, found, type, bytes)
        PROVE  IInv'
    BY <1>1, CreateAccountKeeps, SameIInv DEF RetrieveAccount, Return
  <1>2. QED
    BY <1>1 DEF AccountCall, RetrieveAccountById, RetrieveAccountByBytes

LEMMA ResetKeeps == ASSUME IInv, Reset PROVE IInv'
  <1>1. /\ Assets' = {} /\ Accounts' = {} /\ Entries' = {}
        /\ DOMAIN asset_to_lassid' = {} /\ DOMAIN account_to_laccid' = {}
        /\ lassid_to_asset' \in [Assets' -> AssetRecord]
    BY DEF Reset, ClearedBalances, Assets, Accounts, Entries
  <1>2. Dense({})
    <2>1. {} = 0..(0 - 1)
      OBVIOUS
    <2>2. QED
      BY <2>1 DEF Dense
  <1>3. KeysMatch'
    BY <1>1 DEF KeysMatch
  <1>4. QED
    BY <1>1, <1>2, <1>3 DEF IInv, Owned

LEMMA NextIInv == IInv /\ [Next]_vars => IInv'
  <1> SUFFICES ASSUME IInv, [Next]_vars PROVE IInv'
    OBVIOUS
  <1>1. CASE AssetCall
    BY <1>1, AssetCallKeeps
  <1>2. CASE AccountCall
    BY <1>2, AccountCallKeeps
  <1>3. CASE BalanceCall
    BY <1>3, DepositKeeps, WithdrawKeeps, TransferKeeps DEF BalanceCall
  <1>4. CASE Reset
    BY <1>4, ResetKeeps
  <1>5. CASE UNCHANGED vars
    BY <1>5, SameIInv DEF vars
  <1>6. QED
    BY <1>1, <1>2, <1>3, <1>4, <1>5 DEF Next

\* The size of a map is always a free id, in spite of the resets after which ids
\* start again at zero, and keys and ids lead to each other.
THEOREM RegistryHolds == Spec => []Registry
  <1>1. QED
    BY InitIInv, NextIInv, IInvRegistry, PTL DEF Spec

-----------------------------------------------------------------------------
(* Balances and supplies. *)

\* The balances of a map of entries.
BalanceIn(map, a, u) == IF <<a, u>> \in DOMAIN map THEN map[<<a, u>>] ELSE 0

Row(map, a) == [u \in AccountIds |-> BalanceIn(map, a, u)]

RowSum(map, a) == SumFunctionOnSet(Row(map, a), AccountIds)

Limit(a) == IF a \in Assets THEN Supply(a) ELSE 0

\* Ids are those the bounds of the model leave, and supply and balances agree.
Exact ==
  /\ Assets \subseteq AssetIds /\ Accounts \subseteq AccountIds
  /\ \A k \in Entries : account_asset_balance[k] \in Nat
  /\ \A a \in AssetIds : RowSum(account_asset_balance, a) = Limit(a)

LEMMA BalanceIs ==
  \A a, u : Balance(a, u) = BalanceIn(account_asset_balance, a, u)
  BY DEF Balance, BalanceIn, Entries

LEMMA IdsFinite == IsFiniteSet(AccountIds)
  BY TypesAssumption, FS_Interval DEF AccountIds

LEMMA RowType ==
  ASSUME Exact, NEW a
  PROVE  \A u \in AccountIds :
           /\ Row(account_asset_balance, a)[u] = Balance(a, u)
           /\ Balance(a, u) \in Nat
  BY DEF Exact, Row, BalanceIn, Balance, Entries

LEMMA NoEntryNoSum ==
  ASSUME NEW map, NEW a, \A u \in AccountIds : <<a, u>> \notin DOMAIN map
  PROVE  RowSum(map, a) = 0
  <1>1. \A u \in AccountIds : Row(map, a)[u] = 0
    BY DEF Row, BalanceIn
  <1>2. QED
    BY <1>1, IdsFinite, SumZero DEF RowSum

\* An insert changes the sum of its row as much as the balance.
LEMMA RowSet ==
  ASSUME Exact, NEW a, NEW u \in AccountIds, NEW amount \in Nat, NEW map,
         map = SetBalance(account_asset_balance, a, u, amount)
  PROVE  /\ RowSum(map, a) =
              RowSum(account_asset_balance, a) - Balance(a, u) + amount
         /\ \A b : b # a => RowSum(map, b) = RowSum(account_asset_balance, b)
         /\ \A k \in DOMAIN map : map[k] \in Nat
         /\ \A b, w : BalanceIn(map, b, w) =
              IF b = a /\ w = u THEN amount ELSE Balance(b, w)
  <1>1. /\ DOMAIN map = {<<a, u>>} \cup Entries
        /\ map[<<a, u>>] = amount
        /\ \A k \in Entries : k # <<a, u>> => map[k] = account_asset_balance[k]
    BY DEF SetBalance, Insert, Entries
  <1>2. \A b, w : BalanceIn(map, b, w) =
          IF b = a /\ w = u THEN amount ELSE Balance(b, w)
    BY <1>1 DEF BalanceIn, Balance
  <1>3. \A k \in DOMAIN map : map[k] \in Nat
    BY <1>1 DEF Exact
  <1> DEFINE old == Row(account_asset_balance, a)
             new == Row(map, a)
  <1>4. /\ \A w \in AccountIds : old[w] \in Int /\ new[w] \in Int
        /\ \A w \in AccountIds \ {u} : old[w] = new[w]
        /\ old[u] = Balance(a, u) /\ new[u] = amount
    <2>1. \A w \in AccountIds : new[w] = IF w = u THEN amount ELSE Balance(a, w)
      BY <1>2 DEF Row
    <2> HIDE DEF old, new
    <2>2. \A w \in AccountIds : old[w] = Balance(a, w) /\ Balance(a, w) \in Nat
      BY RowType DEF old
    <2>3. QED
      BY <2>1, <2>2
  <1> HIDE DEF old, new
  <1>5. SumFunctionOnSet(new, AccountIds) =
          SumFunctionOnSet(old, AccountIds) - old[u] + new[u]
    BY <1>4, IdsFinite, SumChange
  <1>6. ASSUME NEW b, b # a
        PROVE  RowSum(map, b) = RowSum(account_asset_balance, b)
    <2>1. Row(map, b) = Row(account_asset_balance, b)
      BY <1>2, <1>6, BalanceIs DEF Row
    <2>2. QED
      BY <2>1 DEF RowSum
  <1>7. RowSum(map, a) = RowSum(account_asset_balance, a) - Balance(a, u) + amount
    BY <1>4, <1>5 DEF RowSum, old, new
  <1>8. QED
    BY <1>2, <1>3, <1>6, <1>7

-----------------------------------------------------------------------------
(* Each call keeps the supplies exact and is a call of the abstract ledger. *)

Single == [a \in Assets |-> lassid_to_asset[a].type = "TOKEN_ADDRESS_ID"]

Bal == [k \in Key |-> Balance(k[1], k[2])]

Step == Abstract!Next \/ UNCHANGED Abstract!vars

LEMMA TotalIsRow ==
  ASSUME NEW a \in AssetIds
  PROVE  Abstract!Total(a) = RowSum(account_asset_balance, a)
  <1>1. [u \in AccountIds |-> Bal[<<a, u>>]] = Row(account_asset_balance, a)
    BY BalanceIs DEF Bal, Row, Key
  <1>2. Abstract!Total(a) =
          Abstract!SumFunction([u \in AccountIds |-> Bal[<<a, u>>]])
    BY DEF Abstract!Total, Bal
  <1>3. DOMAIN Row(account_asset_balance, a) = AccountIds
    BY DEF Row
  <1>4. \A f : Abstract!SumFunction(f) = SumFunctionOnSet(f, DOMAIN f)
    BY DEF Abstract!SumFunction, Abstract!SumFunctionOnSet,
           Abstract!FoldFunctionOnSet, Abstract!MapThenFoldSet,
           SumFunctionOnSet, FoldFunctionOnSet, MapThenFoldSet
  <1>5. QED
    BY <1>1, <1>2, <1>3, <1>4 DEF RowSum

LEMMA SameStep ==
  ASSUME Exact, UNCHANGED ledger
  PROVE  Exact' /\ Step
  <1>1. /\ Assets' = Assets /\ Accounts' = Accounts /\ Entries' = Entries
        /\ lassid_to_asset' = lassid_to_asset
        /\ account_asset_balance' = account_asset_balance
    BY DEF ledger, assetVars, accountVars, Assets, Accounts, Entries
  <1>2. Exact'
    BY <1>1 DEF Exact, Limit, Supply
  <1>3. UNCHANGED Abstract!vars
    BY <1>1 DEF Abstract!vars, Balance
  <1>4. QED
    BY <1>2, <1>3 DEF Step

LEMMA CreateAssetStep ==
  ASSUME IInv, Exact, NEW type, NEW token, NEW token_id,
         CreateAsset(type, token, token_id)
  PROVE  Exact' /\ Step
  <1>1. CASE UNCHANGED ledger
    BY <1>1, SameStep
  <1>2. CASE /\ get_asset_count < MaxAssets
             /\ lassid_to_asset' =
                  Insert(lassid_to_asset, get_asset_count,
                         [type |-> type, token_address |-> token,
                          token_id |-> token_id, supply |-> 0])
             /\ UNCHANGED <<accountVars, account_asset_balance>>
    <2> DEFINE id     == get_asset_count
               single == type = "TOKEN_ADDRESS_ID"
    <2>1. id \in AssetIds /\ id \notin Assets
      <3>1. id \notin Assets /\ id \in Nat
        BY SizeOfDense DEF IInv, get_asset_count
      <3>2. id < MaxAssets
        BY <1>2
      <3>3. QED
        BY <3>1, <3>2, TypesAssumption DEF AssetIds
    <2> HIDE DEF id
    <2>2. /\ Assets' = {id} \cup Assets
          /\ lassid_to_asset'[id].type = type
          /\ lassid_to_asset'[id].supply = 0
          /\ \A a \in Assets : lassid_to_asset'[a] = lassid_to_asset[a]
      BY <1>2, <2>1 DEF Insert, Assets, id
    <2>3. /\ account_asset_balance' = account_asset_balance
          /\ Accounts' = Accounts /\ Entries' = Entries
      BY <1>2 DEF accountVars, Accounts, Entries
    <2>4. Exact'
      <3>1. \A a \in AssetIds : Limit(a)' = Limit(a)
        BY <2>1, <2>2 DEF Limit, Supply
      <3>2. QED
        BY <2>1, <2>2, <2>3, <3>1 DEF Exact
    <2>5. /\ id \notin DOMAIN Single
          /\ Single' = [b \in DOMAIN Single \cup {id} |->
                          IF b = id THEN single ELSE Single[b]]
          /\ Bal' = Bal
      BY <2>1, <2>2, <2>3 DEF Single, Bal, Balance
    <2>6. Abstract!CreateAsset(id, single)
      BY <2>3, <2>5 DEF Abstract!CreateAsset, Abstract!assets, Single, Bal
    <2>7. single \in BOOLEAN
      OBVIOUS
    <2>8. QED
      BY <2>1, <2>4, <2>6, <2>7 DEF Step, Abstract!Next
  <1>3. QED
    BY <1>1, <1>2 DEF CreateAsset, Return

LEMMA CreateAccountStep ==
  ASSUME IInv, Exact, NEW type, NEW bytes, CreateAccount(type, bytes)
  PROVE  Exact' /\ Step
  <1>1. CASE UNCHANGED ledger
    BY <1>1, SameStep
  <1>2. CASE /\ get_account_count < MaxAccounts
             /\ laccid_to_account' =
                  Insert(laccid_to_account, get_account_count,
                         [type |-> type, account_id |-> bytes])
             /\ UNCHANGED <<assetVars, account_asset_balance>>
    <2> DEFINE id == get_account_count
    <2>1. id \in AccountIds /\ id \notin Accounts
      <3>1. id \notin Accounts /\ id \in Nat
        BY SizeOfDense DEF IInv, get_account_count
      <3>2. id < MaxAccounts
        BY <1>2
      <3>3. QED
        BY <3>1, <3>2, TypesAssumption DEF AccountIds
    <2> HIDE DEF id
    <2>2. Accounts' = {id} \cup Accounts
      BY <1>2 DEF Insert, Accounts, id
    <2>3. /\ account_asset_balance' = account_asset_balance /\ Entries' = Entries
          /\ lassid_to_asset' = lassid_to_asset /\ Assets' = Assets
      BY <1>2 DEF assetVars, Assets, Entries
    <2>4. Exact'
      BY <2>1, <2>2, <2>3 DEF Exact, Limit, Supply
    <2>5. Single' = Single /\ Bal' = Bal
      BY <2>3 DEF Single, Bal, Balance
    <2>6. Abstract!CreateAccount(id)
      BY <2>1, <2>2, <2>5 DEF Abstract!CreateAccount, Single, Bal
    <2>7. QED
      BY <2>1, <2>4, <2>6 DEF Step, Abstract!Next
  <1>3. QED
    BY <1>1, <1>2 DEF CreateAccount, Return

\* The new supply of one asset.
LEMMA SupplySet ==
  ASSUME IInv, NEW a \in Assets, NEW amount, SetAssetSupply(a, amount)
  PROVE  /\ Assets' = Assets
         /\ Single' = Single
         /\ Limit(a)' = amount
         /\ \A b : b # a => Limit(b)' = Limit(b)
  <1>1. \A b \in Assets : lassid_to_asset[b] \in AssetRecord
    BY DEF IInv
  <1>2. /\ Assets' = Assets
        /\ \A b \in Assets :
             /\ lassid_to_asset'[b].type = lassid_to_asset[b].type
             /\ lassid_to_asset'[b].supply =
                  IF b = a THEN amount ELSE lassid_to_asset[b].supply
    BY <1>1 DEF SetAssetSupply, Assets, AssetRecord
  <1>3. QED
    BY <1>2 DEF Single, Limit, Supply

\* One balance and the supply of its asset change by as much.
LEMMA BothSet ==
  ASSUME IInv, Exact, NEW a \in Assets, NEW u \in Accounts,
         NEW amount \in Nat, NEW supply,
         supply - amount = Supply(a) - Balance(a, u), supply \in Int,
         account_asset_balance' = SetBalance(account_asset_balance, a, u, amount),
         SetAssetSupply(a, supply), UNCHANGED accountVars
  PROVE  /\ Exact'
         /\ Single' = Single /\ Accounts' = Accounts
         /\ Bal' = [Bal EXCEPT ![<<a, u>>] = amount]
         /\ a \in AssetIds /\ u \in AccountIds
         /\ Abstract!Total(a) = Supply(a)
         /\ Bal[<<a, u>>] = Balance(a, u)
  <1>1. /\ a \in AssetIds /\ u \in AccountIds
        /\ RowSum(account_asset_balance, a) = Supply(a)
        /\ Supply(a) \in Amounts
    BY SupplyType DEF Exact, Limit
  <1>2. /\ RowSum(account_asset_balance', a) =
             RowSum(account_asset_balance, a) - Balance(a, u) + amount
        /\ \A b : b # a =>
             RowSum(account_asset_balance', b) = RowSum(account_asset_balance, b)
        /\ \A k \in Entries' : account_asset_balance'[k] \in Nat
        /\ \A b, w : BalanceIn(account_asset_balance', b, w) =
             IF b = a /\ w = u THEN amount ELSE Balance(b, w)
    BY <1>1, RowSet DEF Entries
  <1>3. /\ Assets' = Assets /\ Single' = Single /\ Limit(a)' = supply
        /\ \A b : b # a => Limit(b)' = Limit(b)
    BY SupplySet
  <1>4. Accounts' = Accounts
    BY DEF accountVars, Accounts
  <1>5. RowSum(account_asset_balance', a) = supply
    <2>1. Balance(a, u) \in Nat /\ Supply(a) \in Int
      BY <1>1, RowType, TypesAssumption DEF Amounts
    <2>2. RowSum(account_asset_balance', a) = Supply(a) - Balance(a, u) + amount
      BY <1>1, <1>2
    <2>3. QED
      BY <2>1, <2>2
  <1>6. Exact'
    <2>1. \A b \in AssetIds : RowSum(account_asset_balance', b) = Limit(b)'
      BY <1>2, <1>3, <1>5 DEF Exact
    <2>2. QED
      BY <1>2, <1>3, <1>4, <2>1 DEF Exact
  <1>7. Bal' = [Bal EXCEPT ![<<a, u>>] = amount]
    <2>1. \A b, w : Balance(b, w)' = IF b = a /\ w = u THEN amount ELSE Balance(b, w)
      BY <1>2 DEF Balance, BalanceIn, Entries
    <2>2. ASSUME NEW k \in Key
          PROVE  Balance(k[1], k[2])' = IF k = <<a, u>> THEN amount
                                                      ELSE Balance(k[1], k[2])
      <3>1. k = <<k[1], k[2]>>
        BY DEF Key
      <3>2. Balance(k[1], k[2])' = IF k[1] = a /\ k[2] = u THEN amount
                                                          ELSE Balance(k[1], k[2])
        BY <2>1
      <3>3. QED
        BY <3>1, <3>2
    <2>3. QED
      BY <2>2 DEF Bal
  <1>8. Abstract!Total(a) = Supply(a)
    BY <1>1, TotalIsRow
  <1>9. Bal[<<a, u>>] = Balance(a, u)
    BY <1>1 DEF Bal, Key
  <1>10. QED
    BY <1>1, <1>3, <1>4, <1>6, <1>7, <1>8, <1>9

LEMMA DepositStep ==
  ASSUME IInv, Exact, NEW a \in AssetIds, NEW u \in AccountIds,
         NEW amount \in Amounts, Deposit(a, u, amount)
  PROVE  Exact' /\ Step
  <1>1. CASE UNCHANGED ledger
    BY <1>1, SameStep
  <1>2. CASE /\ DepositError(a, u, amount) = "SUCCESS"
             /\ account_asset_balance' =
                  SetBalance(account_asset_balance, a, u, Balance(a, u) + amount)
             /\ SetAssetSupply(a, Supply(a) + amount)
             /\ UNCHANGED <<asset_to_lassid, accountVars>>
    <2> DEFINE had  == Balance(a, u)
               more == had + amount
               sup  == Supply(a)
    <2>1. /\ a \in Assets /\ u \in Accounts
          /\ sup + amount <= MaxAmount
          /\ ~SecondUnit(a, amount)
      BY <1>2 DEF DepositError, SupplyFits
    <2>2. /\ had \in Nat /\ sup \in Nat /\ amount \in Nat
      BY <2>1, RowType, SupplyType, TypesAssumption DEF Amounts
    <2>3. more \in Nat /\ (sup + amount) - more = sup - had /\ sup + amount \in Int
      BY <2>2
    <2>4. lassid_to_asset[a].type = "TOKEN_ADDRESS_ID" => sup + amount <= 1
      BY <2>1, <2>2 DEF SecondUnit
    <2> HIDE DEF more
    <2>5. /\ Exact'
          /\ Single' = Single /\ Accounts' = Accounts
          /\ Bal' = [Bal EXCEPT ![<<a, u>>] = more]
          /\ Abstract!Total(a) = sup /\ Bal[<<a, u>>] = had
      BY <1>2, <2>1, <2>3, BothSet DEF more
    <2>6. Bal' = [Bal EXCEPT ![<<a, u>>] = @ + amount]
      BY <2>5 DEF more
    <2>7. Abstract!Total(a) + amount <= (IF Single[a] THEN 1 ELSE MaxAmount)
      <3>1. Single[a] <=> lassid_to_asset[a].type = "TOKEN_ADDRESS_ID"
        BY <2>1 DEF Single
      <3>2. QED
        BY <2>1, <2>4, <2>5, <3>1
    <2>8. Abstract!Deposit(a, u, amount)
      BY <2>1, <2>5, <2>6, <2>7 DEF Abstract!Deposit, Abstract!assets, Single, Bal
    <2>9. QED
      BY <2>5, <2>8 DEF Step, Abstract!Next, Amounts
  <1>3. QED
    BY <1>1, <1>2 DEF Deposit, Return

LEMMA WithdrawStep ==
  ASSUME IInv, Exact, NEW a \in AssetIds, NEW u \in AccountIds,
         NEW amount \in Amounts, Withdraw(a, u, amount)
  PROVE  Exact' /\ Step
  <1>1. CASE UNCHANGED ledger
    BY <1>1, SameStep
  <1>2. CASE /\ WithdrawError(a, u, amount) = "SUCCESS"
             /\ account_asset_balance' =
                  SetBalance(account_asset_balance, a, u, Balance(a, u) - amount)
             /\ SetAssetSupply(a, Supply(a) - amount)
             /\ UNCHANGED <<asset_to_lassid, accountVars>>
    <2> DEFINE had  == Balance(a, u)
               left == had - amount
               sup  == Supply(a)
    <2>1. a \in Assets /\ u \in Accounts /\ ~(amount > had)
      BY <1>2 DEF WithdrawError
    <2>2. had \in Nat /\ sup \in Nat /\ amount \in Nat
      BY <2>1, RowType, SupplyType, TypesAssumption DEF Amounts
    <2>3. /\ left \in Nat /\ (sup - amount) - left = sup - had
          /\ sup - amount \in Int /\ amount <= had
      BY <2>1, <2>2
    <2> HIDE DEF left
    <2>4. /\ Exact'
          /\ Single' = Single /\ Accounts' = Accounts
          /\ Bal' = [Bal EXCEPT ![<<a, u>>] = left]
          /\ Bal[<<a, u>>] = had
      BY <1>2, <2>1, <2>3, BothSet DEF left
    <2>5. Bal' = [Bal EXCEPT ![<<a, u>>] = @ - amount]
      BY <2>4 DEF left
    <2>6. Abstract!Withdraw(a, u, amount)
      BY <2>1, <2>3, <2>4, <2>5
         DEF Abstract!Withdraw, Abstract!assets, Single, Bal
    <2>7. QED
      BY <2>4, <2>6 DEF Step, Abstract!Next, Amounts
  <1>3. QED
    BY <1>1, <1>2 DEF Withdraw, Return

LEMMA TransferStep ==
  ASSUME IInv, Exact, NEW a \in AssetIds, NEW from \in AccountIds,
         NEW to \in AccountIds, NEW amount \in Amounts,
         Transfer(a, from, to, amount)
  PROVE  Exact' /\ Step
  <1>1. CASE UNCHANGED ledger
    BY <1>1, SameStep
  <1>2. CASE /\ TransferError(a, from, to, amount) = "SUCCESS"
             /\ account_asset_balance' = Moved(a, from, to, amount)
             /\ UNCHANGED <<assetVars, accountVars>>
    <2> DEFINE left == Balance(a, from) - amount
               more == Balance(a, to) + amount
               map  == account_asset_balance'
    <2>1. /\ a \in Assets /\ from \in Accounts /\ to \in Accounts /\ from # to
          /\ ~(amount > Balance(a, from))
      BY <1>2 DEF TransferError
    <2>2. Balance(a, from) \in Nat /\ Balance(a, to) \in Nat /\ amount \in Nat
      BY RowType, TypesAssumption DEF Amounts
    <2>3. /\ left \in Nat /\ more \in Nat /\ amount <= Balance(a, from)
          /\ Balance(a, from) + Balance(a, to) = left + more
      BY <2>1, <2>2
    <2>4. map = SetBalance(SetBalance(account_asset_balance, a, from, left),
                           a, to, more)
      BY <1>2 DEF Moved
    <2> HIDE DEF left, more
    <2>5. /\ DOMAIN map = {<<a, to>>, <<a, from>>} \cup Entries
          /\ map[<<a, from>>] = left /\ map[<<a, to>>] = more
          /\ \A k \in Entries : k \notin {<<a, from>>, <<a, to>>} =>
               map[k] = account_asset_balance[k]
      BY <2>1, <2>4 DEF SetBalance, Insert, Entries
    <2>6. \A b, w : BalanceIn(map, b, w) =
            IF b = a /\ w = from THEN left
            ELSE IF b = a /\ w = to THEN more ELSE Balance(b, w)
      BY <2>1, <2>5 DEF BalanceIn, Balance
    <2>7. \A k \in DOMAIN map : map[k] \in Nat
      BY <2>3, <2>5 DEF Exact
    <2> DEFINE old == Row(account_asset_balance, a)
               new == Row(map, a)
    <2>8. \A w \in AccountIds :
            /\ old[w] = Balance(a, w) /\ old[w] \in Nat
            /\ new[w] = IF w = from THEN left
                        ELSE IF w = to THEN more ELSE Balance(a, w)
      <3>1. \A w \in AccountIds : old[w] = Balance(a, w) /\ old[w] \in Nat
        BY RowType
      <3>2. \A w \in AccountIds : new[w] = BalanceIn(map, a, w)
        BY DEF Row
      <3> HIDE DEF old, new, map
      <3>3. QED
        BY <2>6, <3>1, <3>2
    <2> HIDE DEF old, new, map
    <2>9. /\ \A w \in AccountIds : old[w] \in Int /\ new[w] \in Int
          /\ \A w \in AccountIds \ {from, to} : old[w] = new[w]
          /\ old[from] + old[to] = new[from] + new[to]
      BY <2>1, <2>3, <2>8
    <2>10. SumFunctionOnSet(new, AccountIds) = SumFunctionOnSet(old, AccountIds)
      BY <2>1, <2>9, IdsFinite, SumMove
    <2>11. \A b \in AssetIds : RowSum(map, b) = RowSum(account_asset_balance, b)
      <3>1. ASSUME NEW b \in AssetIds, b # a
            PROVE  RowSum(map, b) = RowSum(account_asset_balance, b)
        <4>1. Row(map, b) = Row(account_asset_balance, b)
          BY <2>6, <3>1, BalanceIs DEF Row
        <4>2. QED
          BY <4>1 DEF RowSum
      <3>2. QED
        BY <2>10, <3>1 DEF RowSum, old, new
    <2>12. /\ Assets' = Assets /\ Accounts' = Accounts /\ Single' = Single
           /\ lassid_to_asset' = lassid_to_asset
      BY <1>2 DEF assetVars, accountVars, Assets, Accounts, Single
    <2>13. Exact'
      BY <2>7, <2>11, <2>12 DEF Exact, Limit, Supply, Entries, map
    <2>14. Bal' = [Bal EXCEPT ![<<a, from>>] = @ - amount, ![<<a, to>>] = @ + amount]
      <3>1. \A b, w : Balance(b, w)' =
              IF b = a /\ w = from THEN left
              ELSE IF b = a /\ w = to THEN more ELSE Balance(b, w)
        BY <2>6 DEF Balance, BalanceIn, Entries, map
      <3>2. /\ <<a, from>> \in Key /\ <<a, to>> \in Key
            /\ \A k \in Key : k = <<k[1], k[2]>>
        BY DEF Key
      <3>3. ASSUME NEW k \in Key
            PROVE  Bal'[k] = IF k = <<a, from>> THEN left
                             ELSE IF k = <<a, to>> THEN more ELSE Bal[k]
        BY <3>1, <3>2 DEF Bal
      <3>4. Bal[<<a, from>>] - amount = left /\ Bal[<<a, to>>] + amount = more
        BY <3>2 DEF Bal, left, more
      <3>5. <<a, from>> # <<a, to>>
        BY <2>1
      <3>6. Bal = [k \in Key |-> Bal[k]] /\ Bal' = [k \in Key |-> Bal'[k]]
        BY DEF Bal
      <3> HIDE DEF Bal
      <3>7. QED
        BY <3>2, <3>3, <3>4, <3>5, <3>6
    <2>15. Bal[<<a, from>>] = Balance(a, from)
      BY DEF Bal, Key
    <2>16. Abstract!Transfer(a, from, to, amount)
      BY <2>1, <2>3, <2>12, <2>14, <2>15
         DEF Abstract!Transfer, Abstract!assets, Single, Bal
    <2>17. QED
      BY <2>13, <2>16 DEF Step, Abstract!Next, Amounts
  <1>3. QED
    BY <1>1, <1>2 DEF Transfer, Return

LEMMA ResetStep ==
  ASSUME Reset
  PROVE  Exact' /\ Step
  <1>1. /\ Assets' = {} /\ Accounts' = {} /\ Entries' = {}
        /\ lassid_to_asset' = <<>> /\ account_asset_balance' = <<>>
    BY DEF Reset, ClearedBalances, Assets, Accounts, Entries
  <1>2. Exact'
    <2>1. \A a : RowSum(account_asset_balance', a) = 0
      BY <1>1, NoEntryNoSum
    <2>2. QED
      BY <1>1, <2>1 DEF Exact, Limit
  <1>3. Single' = <<>> /\ Bal' = [k \in DOMAIN Bal |-> 0]
    BY <1>1 DEF Single, Bal, Balance
  <1>4. Abstract!Reset
    BY <1>1, <1>3 DEF Abstract!Reset, Single, Bal
  <1>5. QED
    BY <1>2, <1>4 DEF Step, Abstract!Next

LEMMA InitExact == Init => Exact /\ Abstract!Init
  <1> SUFFICES ASSUME Init PROVE Exact /\ Abstract!Init
    OBVIOUS
  <1>1. /\ Assets = {} /\ Accounts = {} /\ Entries = {}
        /\ lassid_to_asset = <<>> /\ account_asset_balance = <<>>
    BY DEF Init, Assets, Accounts, Entries
  <1>2. \A a : RowSum(account_asset_balance, a) = 0
    BY <1>1, NoEntryNoSum
  <1>3. Exact
    BY <1>1, <1>2 DEF Exact, Limit
  <1>4. Abstract!Init
    BY <1>1 DEF Abstract!Init, Balance, Key
  <1>5. QED
    BY <1>3, <1>4

LEMMA NextStep ==
  ASSUME IInv, Exact, [Next]_vars
  PROVE  Exact' /\ Step
  <1>1. CASE AssetCall
    BY <1>1, CreateAssetStep, SameStep
       DEF AssetCall, RetrieveAssetById, RetrieveAssetByToken, RetrieveAsset,
           Return
  <1>2. CASE AccountCall
    BY <1>2, CreateAccountStep, SameStep
       DEF AccountCall, RetrieveAccountById, RetrieveAccountByBytes,
           RetrieveAccount, Return
  <1>3. CASE BalanceCall
    BY <1>3, DepositStep, WithdrawStep, TransferStep DEF BalanceCall
  <1>4. CASE Reset
    BY <1>4, ResetStep
  <1>5. CASE UNCHANGED vars
    BY <1>5, SameStep DEF vars
  <1>6. QED
    BY <1>1, <1>2, <1>3, <1>4, <1>5 DEF Next

LEMMA Invariance == Spec => [](IInv /\ Exact)
  <1>1. Init => IInv /\ Exact
    BY InitIInv, InitExact
  <1>2. IInv /\ Exact /\ [Next]_vars => IInv' /\ Exact'
    BY NextIInv, NextStep
  <1>3. QED
    BY <1>1, <1>2, PTL DEF Spec

\* No balance is left behind for the next owner of an id, although ids start
\* again at zero after a reset, and the supply of each asset is the sum of
\* what its accounts hold.
THEOREM BalancesHaveOwners == Spec => []NoOrphanBalance
  <1>1. ASSUME IInv, Exact, NEW a \in Assets
        PROVE  SumFunction([u \in AccountIds |-> Balance(a, u)]) = Supply(a)
    <2>1. [u \in AccountIds |-> Balance(a, u)] = Row(account_asset_balance, a)
      BY BalanceIs DEF Row
    <2>2. SumFunction([u \in AccountIds |-> Balance(a, u)]) =
            RowSum(account_asset_balance, a)
      BY <2>1 DEF SumFunction, RowSum
    <2>3. QED
      BY <1>1, <2>2 DEF Exact, Limit
  <1>2. IInv /\ Exact => NoOrphanBalance
    BY <1>1 DEF NoOrphanBalance, IInv, Owned
  <1>3. QED
    BY <1>2, Invariance, PTL

\* The in-process ledger is the abstract ledger.
THEOREM Refinement == Spec => RefinesLedger
  <1>1. Init => Abstract!Init
    BY InitExact
  <1>2. IInv /\ Exact /\ [Next]_vars => [Abstract!Next]_(Abstract!vars)
    BY NextStep DEF Step
  <1>3. QED
    BY <1>1, <1>2, Invariance, PTL DEF Spec, RefinesLedger, Abstract!Spec
=============================================================================
