------------------------- MODULE LedgerMemoryProofs -------------------------
(***************************************************************************)
(* The registry, the balances and the records of cma_ledger_memory stay in *)
(* step under every sequence of calls, for every number of assets,         *)
(* accounts, balances and every largest amount.                            *)
(***************************************************************************)
EXTENDS LedgerMemory, BalanceTableProofs, SumLemmas

-----------------------------------------------------------------------------
(* The inductive invariant. *)

\* The token fields of a record are those its type has, which is what lets
\* WriteRecord leave the others alone.
FieldsFit(asset) ==
  /\ ~HasToken(asset.type) => asset.token_address = Zero
  /\ ~HasTokenId(asset.type) => asset.token_id = Zero

\* KeyOfAsset of the asset itself.
KeyOf(asset) == AssetKey(asset.type, asset.token_address, asset.token_id)

AssetsOK ==
  /\ Assets \subseteq AssetIds
  /\ lassid_to_asset \in [Assets -> AssetRecord]
  /\ asset_to_lassid \in [DOMAIN asset_to_lassid -> AssetIds]
  /\ next_asset_id \in 0..MaxAssets
  /\ base_asset_id \in Nat
  /\ base_asset_id_defined \in BOOLEAN
  /\ AssetKeysMatch
  /\ BaseIsUnique
  /\ \A a \in Assets : a < next_asset_id /\ FieldsFit(lassid_to_asset[a])

AccountsOK ==
  /\ Accounts \subseteq AccountIds
  /\ laccid_to_account \in [Accounts -> AccountRecord]
  /\ account_to_laccid \in [DOMAIN account_to_laccid -> AccountIds]
  /\ next_account_id \in 0..MaxAccounts
  /\ AccountKeysMatch
  /\ \A u \in Accounts :
       /\ u < next_account_id
       /\ laccid_to_account[u].type = "WALLET_ADDRESS" =>
            laccid_to_account[u].account_id \in Wallets

\* IsWithdrawable and HeaderFor of the asset and account themselves.
Proved(asset, account) == asset.type # "ID" /\ account.type = "WALLET_ADDRESS"

HeaderOf(asset, account) ==
  [type |-> asset.type, owner |-> account.account_id,
   token_address |-> asset.token_address, token_id |-> asset.token_id]

EntryFits(s, k, asset, account) ==
  IF Proved(asset, account)
  THEN /\ ~IsVirtual(s, k)
       /\ s.balances[At(s, k)].header = HeaderOf(asset, account)
  ELSE IsVirtual(s, k)

\* A table that fits the registry: every entry has a live account and an
\* asset id that was given out, and says what the registry says.
Fits(s, assets, accounts, next_id) ==
  /\ WellFormed(s)
  /\ \A k \in Entries(s) :
       /\ k[1] < next_id
       /\ k[2] \in DOMAIN accounts
       /\ k[1] \in DOMAIN assets =>
            EntryFits(s, k, assets[k[1]], accounts[k[2]])

TableFits == Fits(table, lassid_to_asset, laccid_to_account, next_asset_id)

\* TokenIdIsSingle, and no balance beyond the supply: a deposit that finds
\* the supply zero finds every balance zero.
SingleIn(s, a, supply) ==
  /\ supply <= 1
  /\ \A u \in AccountIds : BalanceOf(s, <<a, u>>) <= supply
  /\ \A u, w \in AccountIds :
       BalanceOf(s, <<a, u>>) > 0 /\ BalanceOf(s, <<a, w>>) > 0 => u = w

OneHand ==
  \A a \in Assets :
    lassid_to_asset[a].type = "TOKEN_ADDRESS_ID" => SingleIn(table, a, Supply(a))

ResultOK == result \in Errors \cup {"SUCCESS"}

IInv == AssetsOK /\ AccountsOK /\ TableFits /\ OneHand /\ ResultOK

-----------------------------------------------------------------------------
(* Maps. *)

LEMMA KeysOfAssets ==
  AssetKeysMatch <=>
    /\ \A key \in DOMAIN asset_to_lassid :
         /\ asset_to_lassid[key] \in Assets
         /\ HasToken(lassid_to_asset[asset_to_lassid[key]].type)
         /\ KeyOf(lassid_to_asset[asset_to_lassid[key]]) = key
    /\ \A a \in Assets :
         HasToken(lassid_to_asset[a].type) =>
           /\ KeyOf(lassid_to_asset[a]) \in DOMAIN asset_to_lassid
           /\ asset_to_lassid[KeyOf(lassid_to_asset[a])] = a
  BY DEF AssetKeysMatch, KeyOfAsset, KeyOf

LEMMA EraseFacts ==
  ASSUME NEW S, NEW map, map \in [DOMAIN map -> S], NEW key
  PROVE  /\ DOMAIN Erase(map, key) = DOMAIN map \ {key}
         /\ Erase(map, key) \in [DOMAIN map \ {key} -> S]
         /\ \A k \in DOMAIN map : k # key => Erase(map, key)[k] = map[k]
  BY DEF Erase, Restrict

LEMMA BalanceType ==
  ASSUME NEW s, WellFormed(s), NEW k
  PROVE  BalanceOf(s, k) \in Amounts
  <1>1. 0 \in Amounts
    BY TypesAssumption DEF Amounts
  <1>2. CASE k \in Entries(s) /\ IsVirtual(s, k)
    <2>1. /\ s.virtual_balances \in Seq(Amounts)
          /\ At(s, k) \in DOMAIN s.virtual_balances
      BY <1>2, WellFormedIsWhole, WholeFacts DEF WellFormed, TableType
    <2>2. QED
      BY <1>2, <2>1, ElementOfSeq DEF BalanceOf
  <1>3. CASE k \in Entries(s) /\ ~IsVirtual(s, k)
    <2>1. At(s, k) \in 1..MaxBalances
      BY <1>3, WellFormedIsWhole, WholeFacts
    <2>2. s.balances[At(s, k)] \in [header: Header, amount: Amounts]
      BY <2>1 DEF WellFormed, TableType
    <2>3. QED
      BY <1>3, <2>2 DEF BalanceOf
  <1>4. QED
    BY <1>1, <1>2, <1>3 DEF BalanceOf

-----------------------------------------------------------------------------
(* One balance set: the table still fits, and one balance has changed. *)

LEMMA HeaderDescribes ==
  ASSUME AssetsOK, AccountsOK, NEW a \in Assets, NEW u \in Accounts,
         IsWithdrawable(a, u)
  PROVE  Describes(HeaderFor(a, u))
  <1>1. /\ lassid_to_asset[a] \in AssetRecord
        /\ FieldsFit(lassid_to_asset[a])
        /\ laccid_to_account[u].account_id \in Wallets
    BY DEF AssetsOK, AccountsOK, IsWithdrawable
  <1>2. QED
    BY <1>1 DEF Describes, HeaderFor, Header, AssetRecord, FieldsFit

LEMMA SetKeepsFit ==
  ASSUME AssetsOK, AccountsOK, NEW s,
         Fits(s, lassid_to_asset, laccid_to_account, next_asset_id),
         NEW a \in Assets, NEW u \in Accounts, ~NoRoom(s, a, u),
         NEW amount \in Amounts,
         NEW t, t = SetAccountAssetBalance(s, a, u, amount)
  PROVE  /\ Fits(t, lassid_to_asset, laccid_to_account, next_asset_id)
         /\ Assigned(s, t, <<a, u>>, amount)
         /\ OthersKept(s, t, <<a, u>>)
  <1> DEFINE k == <<a, u>>
             w == IsWithdrawable(a, u)
             h == HeaderFor(a, u)
  <1>1. /\ WellFormed(s)
        /\ k \in Key
        /\ k \in Entries(s) \/ ~Full(s)
        /\ w \in BOOLEAN
        /\ w => Describes(h)
        /\ t = SetBalance(s, k, w, h, amount)
    BY HeaderDescribes
       DEF Fits, Key, NoRoom, SetAccountAssetBalance, AssetsOK, AccountsOK,
           IsWithdrawable
  <1>2. k[1] = a /\ k[2] = u
    OBVIOUS
  <1>3. /\ w <=> Proved(lassid_to_asset[a], laccid_to_account[u])
        /\ h = HeaderOf(lassid_to_asset[a], laccid_to_account[u])
    BY DEF IsWithdrawable, HeaderFor, Proved, HeaderOf
  <1>4. a < next_asset_id
    BY DEF AssetsOK
  <1> HIDE DEF k, w, h
  <1>5. WellFormed(t)
    BY <1>1, SetBalanceKeeps
  <1>6. Assigned(s, t, k, amount)
    BY <1>1, SetBalanceKeeps
  <1>7. OthersKept(s, t, k)
    BY <1>1, SetBalanceKeeps
  <1>8. k \in Entries(t) =>
          IF k \in Entries(s)
          THEN /\ IsVirtual(t, k) <=> IsVirtual(s, k)
               /\ ~IsVirtual(s, k) => t.balances[At(t, k)].header =
                                      s.balances[At(s, k)].header
          ELSE /\ IsVirtual(t, k) <=> ~w
               /\ w => t.balances[At(t, k)].header = h
    BY <1>1, SetBalanceKeeps
  <1>9. ASSUME NEW j \in Entries(t)
        PROVE  /\ j[1] < next_asset_id
               /\ j[2] \in Accounts
               /\ j[1] \in Assets =>
                    EntryFits(t, j, lassid_to_asset[j[1]],
                              laccid_to_account[j[2]])
    <2>1. j \in Entries(s) =>
            /\ j[1] < next_asset_id
            /\ j[2] \in Accounts
            /\ j[1] \in Assets =>
                 EntryFits(s, j, lassid_to_asset[j[1]],
                           laccid_to_account[j[2]])
      BY DEF Fits, Assets, Accounts
    <2>2. CASE j # k
      <3>1. /\ j \in Entries(s)
            /\ IsVirtual(t, j) <=> IsVirtual(s, j)
            /\ ~IsVirtual(s, j) => t.balances[At(t, j)].header =
                                   s.balances[At(s, j)].header
        BY <1>7, <2>2 DEF OthersKept, IsVirtual
      <3>2. QED
        BY <2>1, <3>1 DEF EntryFits
    <2>3. CASE j = k /\ k \in Entries(s)
      BY <1>8, <2>1, <2>3 DEF EntryFits
    <2>4. CASE j = k /\ k \notin Entries(s)
      BY <1>2, <1>3, <1>4, <1>8, <2>4 DEF EntryFits
    <2>5. QED
      BY <2>2, <2>3, <2>4
  <1>10. QED
    BY <1>5, <1>6, <1>7, <1>9 DEF Fits, k, Assets, Accounts

-----------------------------------------------------------------------------
(* Calls that change nothing, and the calls about assets. *)

LEMMA InitIInv == Init => IInv
  <1> SUFFICES ASSUME Init
               PROVE  IInv
    OBVIOUS
  <1>1. Assets = {} /\ Accounts = {}
    BY DEF Init, Assets, Accounts
  <1>2. AssetsOK
    <2>1. AssetKeysMatch /\ BaseIsUnique
      BY <1>1 DEF Init, AssetKeysMatch, BaseIsUnique
    <2>2. /\ lassid_to_asset \in [Assets -> AssetRecord]
          /\ asset_to_lassid \in [DOMAIN asset_to_lassid -> AssetIds]
      BY <1>1 DEF Init, Assets
    <2>3. /\ Assets \subseteq AssetIds
          /\ next_asset_id \in 0..MaxAssets
          /\ base_asset_id \in Nat
      BY <1>1, TypesAssumption DEF Init
    <2>4. base_asset_id_defined \in BOOLEAN
      BY DEF Init
    <2>5. QED
      BY <1>1, <2>1, <2>2, <2>3, <2>4 DEF AssetsOK
  <1>3. AccountsOK
    <2>1. AccountKeysMatch
      BY <1>1 DEF Init, AccountKeysMatch
    <2>2. /\ laccid_to_account \in [Accounts -> AccountRecord]
          /\ account_to_laccid \in [DOMAIN account_to_laccid -> AccountIds]
      BY <1>1 DEF Init, Accounts
    <2>3. QED
      BY <1>1, <2>1, <2>2, TypesAssumption DEF Init, AccountsOK
  <1>4. TableFits
    BY EmptyTableWellFormed DEF Init, TableFits, Fits
  <1>5. OneHand /\ ResultOK
    BY <1>1 DEF Init, OneHand, ResultOK
  <1>6. QED
    BY <1>2, <1>3, <1>4, <1>5 DEF IInv

LEMMA SameLedger ==
  ASSUME IInv, UNCHANGED ledger, ResultOK'
  PROVE  IInv'
  <1>1. AssetsOK'
    BY DEF IInv, AssetsOK, AssetKeysMatch, BaseIsUnique, ledger, assetVars,
           Assets, KeyOfAsset
  <1>2. AccountsOK'
    BY DEF IInv, AccountsOK, AccountKeysMatch, ledger, accountVars, Accounts
  <1>3. TableFits' /\ OneHand'
    BY DEF IInv, TableFits, OneHand, ledger, assetVars, accountVars, Assets,
           Supply
  <1>4. QED
    BY <1>1, <1>2, <1>3 DEF IInv

LEMMA ReturnKeeps ==
  ASSUME IInv, NEW code \in Errors \cup {"SUCCESS"}, Return(code)
  PROVE  IInv'
  BY SameLedger DEF Return, ResultOK

\* What a new asset, or an asset less, leaves of the rest.
LEMMA NewIdFits ==
  ASSUME TableFits, AssetsOK,
         NEW assets, DOMAIN assets = Assets \cup {next_asset_id},
         \A a \in Assets : assets[a] = lassid_to_asset[a]
  PROVE  Fits(table, assets, laccid_to_account, next_asset_id + 1)
  <1>1. ASSUME NEW k \in Entries(table)
        PROVE  k[1] \in Int /\ k[1] < next_asset_id /\ next_asset_id \in Int
    BY DEF TableFits, Fits, WellFormed, TableType, Key, AssetIds, AssetsOK
  <1>2. QED
    BY <1>1 DEF TableFits, Fits, Assets

LEMMA CreateAssetKeeps ==
  ASSUME IInv, NEW type \in AssetTypes,
         NEW token \in Tokens \cup {Zero}, NEW token_id \in TokenIds \cup {Zero},
         FieldsFit([type |-> type, token_address |-> token,
                    token_id |-> token_id, supply |-> 0]),
         CreateAsset(type, token, token_id)
  PROVE  IInv'
  <1> DEFINE id     == next_asset_id
             asset  == [type |-> type, token_address |-> token,
                        token_id |-> token_id, supply |-> 0]
             key    == AssetKey(type, token, token_id)
             assets == Insert(lassid_to_asset, id, asset)
  <1>1. CASE Return("MAX_ASSETS_REACHED") \/ Return("INSERTION_ERROR")
    BY <1>1, ReturnKeeps DEF Errors
  <1>2. CASE /\ RoomForAsset
             /\ ~AlreadyInserted(type, key)
             /\ lassid_to_asset' = assets
             /\ asset_to_lassid' = IF HasToken(type)
                                   THEN Insert(asset_to_lassid, key, id)
                                   ELSE asset_to_lassid
             /\ next_asset_id' = id + 1
             /\ base_asset_id' = IF type = "BASE" THEN id ELSE base_asset_id
             /\ base_asset_id_defined' =
                  (base_asset_id_defined \/ type = "BASE")
             /\ result' = "SUCCESS"
             /\ UNCHANGED <<accountVars, table>>
    <2>1. /\ MaxAssets \in Nat
          /\ id \in AssetIds /\ id \in Nat /\ id < MaxAssets
          /\ asset \in AssetRecord
          /\ id \notin Assets
      BY <1>2, TypesAssumption
         DEF IInv, AssetsOK, RoomForAsset, AssetIds, AssetRecord, Amounts
    <2>2. /\ Assets' = Assets \cup {id}
          /\ lassid_to_asset' \in [Assets' -> AssetRecord]
          /\ lassid_to_asset'[id] = asset
          /\ \A a \in Assets : lassid_to_asset'[a] = lassid_to_asset[a]
      <3>1. lassid_to_asset \in [DOMAIN lassid_to_asset -> AssetRecord]
        BY DEF IInv, AssetsOK, Assets
      <3> HIDE DEF id, asset
      <3>2. /\ DOMAIN assets = DOMAIN lassid_to_asset \cup {id}
            /\ assets \in [DOMAIN lassid_to_asset \cup {id} -> AssetRecord]
            /\ assets[id] = asset
            /\ \A a \in DOMAIN lassid_to_asset :
                 a # id => assets[a] = lassid_to_asset[a]
        BY <2>1, <3>1 DEF Insert
      <3> HIDE DEF assets
      <3>3. QED
        BY <1>2, <2>1, <3>2 DEF Assets
    <2>3. KeyOf(asset) = key
      BY DEF KeyOf
    <2>5. /\ asset_to_lassid' \in [DOMAIN asset_to_lassid' -> AssetIds]
          /\ HasToken(type) =>
               /\ key \notin DOMAIN asset_to_lassid
               /\ DOMAIN asset_to_lassid' = DOMAIN asset_to_lassid \cup {key}
               /\ asset_to_lassid'[key] = id
               /\ \A j \in DOMAIN asset_to_lassid :
                    asset_to_lassid'[j] = asset_to_lassid[j]
          /\ ~HasToken(type) => asset_to_lassid' = asset_to_lassid
      <3>1. asset_to_lassid \in [DOMAIN asset_to_lassid -> AssetIds]
        BY DEF IInv, AssetsOK
      <3>2. HasToken(type) => key \notin DOMAIN asset_to_lassid
        BY <1>2 DEF AlreadyInserted
      <3> HIDE DEF id, key
      <3> DEFINE keys == Insert(asset_to_lassid, key, id)
      <3>3. /\ DOMAIN keys = DOMAIN asset_to_lassid \cup {key}
            /\ keys \in [DOMAIN asset_to_lassid \cup {key} -> AssetIds]
            /\ keys[key] = id
            /\ \A j \in DOMAIN asset_to_lassid :
                 j # key => keys[j] = asset_to_lassid[j]
        BY <2>1, <3>1 DEF Insert
      <3>4. asset_to_lassid' = IF HasToken(type) THEN keys ELSE asset_to_lassid
        BY <1>2
      <3> HIDE DEF keys
      <3>5. QED
        BY <3>1, <3>2, <3>3, <3>4
    <2> HIDE DEF key, assets, id, asset
    <2>6. AssetKeysMatch'
      <3>1. ASSUME NEW j \in DOMAIN asset_to_lassid'
            PROVE  /\ asset_to_lassid'[j] \in Assets'
                   /\ HasToken(lassid_to_asset'[asset_to_lassid'[j]].type)
                   /\ KeyOf(lassid_to_asset'[asset_to_lassid'[j]]) = j
        <4>1. CASE j \in DOMAIN asset_to_lassid
          <5>1. /\ asset_to_lassid'[j] = asset_to_lassid[j]
                /\ asset_to_lassid[j] \in Assets
                /\ HasToken(lassid_to_asset[asset_to_lassid[j]].type)
                /\ KeyOf(lassid_to_asset[asset_to_lassid[j]]) = j
            BY <2>5, <4>1, KeysOfAssets DEF IInv, AssetsOK
          <5>2. QED
            BY <2>2, <5>1
        <4>2. CASE j \notin DOMAIN asset_to_lassid
          <5>1. HasToken(type) /\ j = key /\ asset_to_lassid'[j] = id
            BY <2>5, <4>2
          <5>2. QED
            BY <2>2, <2>3, <5>1 DEF asset
        <4>3. QED
          BY <4>1, <4>2
      <3>2. ASSUME NEW a \in Assets', HasToken(lassid_to_asset'[a].type)
            PROVE  /\ KeyOf(lassid_to_asset'[a]) \in DOMAIN asset_to_lassid'
                   /\ asset_to_lassid'[KeyOf(lassid_to_asset'[a])] = a
        <4>1. CASE a \in Assets
          <5>1. /\ lassid_to_asset'[a] = lassid_to_asset[a]
                /\ KeyOf(lassid_to_asset[a]) \in DOMAIN asset_to_lassid
                /\ asset_to_lassid[KeyOf(lassid_to_asset[a])] = a
            BY <2>2, <3>2, <4>1, KeysOfAssets DEF IInv, AssetsOK
          <5>2. QED
            BY <2>5, <5>1
        <4>2. CASE a \notin Assets
          <5>1. a = id /\ lassid_to_asset'[a] = asset /\ HasToken(type)
            BY <2>2, <3>2, <4>2 DEF asset
          <5>2. QED
            BY <2>3, <2>5, <5>1
        <4>3. QED
          BY <4>1, <4>2
      <3>3. QED
        <4>1. /\ \A j \in DOMAIN asset_to_lassid' :
                   /\ asset_to_lassid'[j] \in Assets'
                   /\ HasToken(lassid_to_asset'[asset_to_lassid'[j]].type)
                   /\ KeyOf(lassid_to_asset'[asset_to_lassid'[j]]) = j
              /\ \A a \in Assets' :
                   HasToken(lassid_to_asset'[a].type) =>
                     /\ KeyOf(lassid_to_asset'[a]) \in DOMAIN asset_to_lassid'
                     /\ asset_to_lassid'[KeyOf(lassid_to_asset'[a])] = a
          BY <3>1, <3>2
        <4>2. QED
          BY <4>1 DEF AssetKeysMatch, KeyOfAsset, KeyOf
    <2>7. BaseIsUnique'
      <3>1. ASSUME NEW a \in Assets', lassid_to_asset'[a].type = "BASE"
            PROVE  base_asset_id_defined' /\ a = base_asset_id'
        <4>1. CASE a = id
          <5>1. type = "BASE"
            BY <2>2, <3>1, <4>1 DEF asset
          <5>2. QED
            BY <1>2, <4>1, <5>1 DEF id
        <4>2. CASE a # id
          <5>1. a \in Assets /\ lassid_to_asset[a].type = "BASE"
            BY <2>2, <3>1, <4>2
          <5>2. base_asset_id_defined /\ a = base_asset_id
            BY <5>1 DEF IInv, AssetsOK, BaseIsUnique
          <5>3. type # "BASE"
            BY <1>2, <5>2 DEF AlreadyInserted
          <5>4. QED
            BY <1>2, <5>2, <5>3
        <4>3. QED
          BY <4>1, <4>2
      <3>2. QED
        BY <3>1 DEF BaseIsUnique
    <2>8. \A a \in Assets' : a < next_asset_id' /\ FieldsFit(lassid_to_asset'[a])
      <3>1. \A a \in Assets : a \in Nat /\ a < id
        BY DEF IInv, AssetsOK, AssetIds, id
      <3>2. QED
        BY <1>2, <2>1, <2>2, <3>1 DEF IInv, AssetsOK, id, asset
    <2>9. AssetsOK'
      <3>1. /\ Assets' \subseteq AssetIds
            /\ next_asset_id' \in 0..MaxAssets
            /\ base_asset_id' \in Nat
        BY <1>2, <2>1, <2>2 DEF IInv, AssetsOK, id
      <3>2. base_asset_id_defined' \in BOOLEAN
        BY <1>2
      <3>3. QED
        BY <2>2, <2>5, <2>6, <2>7, <2>8, <3>1, <3>2 DEF AssetsOK
    <2>10. AccountsOK'
      BY <1>2 DEF IInv, AccountsOK, AccountKeysMatch, accountVars, Accounts
    <2>11. TableFits'
      <3>1. Fits(table, lassid_to_asset', laccid_to_account, next_asset_id + 1)
        BY <2>2, NewIdFits DEF IInv, id, Assets
      <3>2. QED
        BY <1>2, <3>1 DEF TableFits, accountVars, id
    <2>12. OneHand'
      <3>1. ASSUME NEW u \in AccountIds
            PROVE  BalanceOf(table, <<id, u>>) = 0
        <4>1. \A k \in Entries(table) : k[1] \in Int /\ k[1] < id
          BY DEF IInv, TableFits, Fits, WellFormed, TableType, Key, AssetIds, id
        <4>2. <<id, u>> \notin Entries(table)
          BY <2>1, <4>1
        <4>3. QED
          BY <4>2 DEF BalanceOf
      <3>2. SingleIn(table, id, 0)
        BY <3>1 DEF SingleIn
      <3>3. table' = table
        BY <1>2
      <3>4. ASSUME NEW a \in Assets', lassid_to_asset'[a].type = "TOKEN_ADDRESS_ID"
            PROVE  SingleIn(table', a, Supply(a)')
        <4>1. CASE a \in Assets
          BY <2>2, <3>3, <3>4, <4>1 DEF IInv, OneHand, Supply
        <4>2. CASE a = id
          BY <2>2, <3>2, <3>3, <4>2 DEF Supply, asset
        <4>3. QED
          BY <2>2, <4>1, <4>2
      <3>5. QED
        BY <3>4 DEF OneHand
    <2>13. QED
      BY <1>2, <2>9, <2>10, <2>11, <2>12 DEF IInv, ResultOK
  <1>3. QED
    BY <1>1, <1>2 DEF CreateAsset, NewAssetId

LEMMA RemoveAssetKeeps ==
  ASSUME IInv, NEW a \in Assets, RemoveAsset(a)
  PROVE  IInv'
  <1>1. CASE Return("ASSET_SUPPLY")
    BY <1>1, ReturnKeeps DEF Errors
  <1>2. CASE /\ lassid_to_asset' = Erase(lassid_to_asset, a)
             /\ asset_to_lassid' = WithoutKeyOf(a)
             /\ base_asset_id_defined' =
                  (base_asset_id_defined /\ lassid_to_asset[a].type # "BASE")
             /\ result' = "SUCCESS"
             /\ UNCHANGED <<next_asset_id, base_asset_id, accountVars, table>>
    <2>1. /\ Assets' = Assets \ {a}
          /\ lassid_to_asset' \in [Assets' -> AssetRecord]
          /\ \A b \in Assets' : lassid_to_asset'[b] = lassid_to_asset[b]
      <3>1. lassid_to_asset \in [DOMAIN lassid_to_asset -> AssetRecord]
        BY DEF IInv, AssetsOK, Assets
      <3> DEFINE assets == Erase(lassid_to_asset, a)
      <3>2. /\ DOMAIN assets = DOMAIN lassid_to_asset \ {a}
            /\ assets \in [DOMAIN lassid_to_asset \ {a} -> AssetRecord]
            /\ \A b \in DOMAIN lassid_to_asset :
                 b # a => assets[b] = lassid_to_asset[b]
        BY <3>1, EraseFacts
      <3>3. lassid_to_asset' = assets
        BY <1>2
      <3> HIDE DEF assets
      <3>4. QED
        BY <3>2, <3>3 DEF Assets
    <2>2. KeyOfAsset(a) = KeyOf(lassid_to_asset[a])
      BY DEF KeyOfAsset, KeyOf
    <2>3. /\ asset_to_lassid' \in [DOMAIN asset_to_lassid' -> AssetIds]
          /\ DOMAIN asset_to_lassid' =
               IF HasToken(lassid_to_asset[a].type)
               THEN DOMAIN asset_to_lassid \ {KeyOf(lassid_to_asset[a])}
               ELSE DOMAIN asset_to_lassid
          /\ \A j \in DOMAIN asset_to_lassid' :
               asset_to_lassid'[j] = asset_to_lassid[j]
      <3>1. asset_to_lassid \in [DOMAIN asset_to_lassid -> AssetIds]
        BY DEF IInv, AssetsOK
      <3> DEFINE key  == KeyOf(lassid_to_asset[a])
                 keys == Erase(asset_to_lassid, key)
      <3>2. asset_to_lassid' = IF HasToken(lassid_to_asset[a].type)
                               THEN keys ELSE asset_to_lassid
        BY <1>2, <2>2 DEF WithoutKeyOf
      <3> HIDE DEF key
      <3>3. /\ DOMAIN keys = DOMAIN asset_to_lassid \ {key}
            /\ keys \in [DOMAIN asset_to_lassid \ {key} -> AssetIds]
            /\ \A j \in DOMAIN asset_to_lassid :
                 j # key => keys[j] = asset_to_lassid[j]
        BY <3>1, EraseFacts
      <3> HIDE DEF keys
      <3>4. QED
        BY <3>1, <3>2, <3>3 DEF key
    <2>4. AssetKeysMatch'
      <3>1. ASSUME NEW j \in DOMAIN asset_to_lassid'
            PROVE  /\ asset_to_lassid'[j] \in Assets'
                   /\ HasToken(lassid_to_asset'[asset_to_lassid'[j]].type)
                   /\ KeyOf(lassid_to_asset'[asset_to_lassid'[j]]) = j
        <4>1. /\ asset_to_lassid'[j] = asset_to_lassid[j]
              /\ asset_to_lassid[j] \in Assets
              /\ HasToken(lassid_to_asset[asset_to_lassid[j]].type)
              /\ KeyOf(lassid_to_asset[asset_to_lassid[j]]) = j
          BY <2>3, KeysOfAssets DEF IInv, AssetsOK
        <4>2. asset_to_lassid[j] # a
          BY <2>3, <4>1
        <4>3. QED
          BY <2>1, <4>1, <4>2
      <3>2. ASSUME NEW b \in Assets', HasToken(lassid_to_asset'[b].type)
            PROVE  /\ KeyOf(lassid_to_asset'[b]) \in DOMAIN asset_to_lassid'
                   /\ asset_to_lassid'[KeyOf(lassid_to_asset'[b])] = b
        <4>1. /\ b \in Assets /\ b # a
              /\ lassid_to_asset'[b] = lassid_to_asset[b]
              /\ KeyOf(lassid_to_asset[b]) \in DOMAIN asset_to_lassid
              /\ asset_to_lassid[KeyOf(lassid_to_asset[b])] = b
          BY <2>1, <3>2, KeysOfAssets DEF IInv, AssetsOK
        <4>2. HasToken(lassid_to_asset[a].type) =>
                asset_to_lassid[KeyOf(lassid_to_asset[a])] = a
          BY KeysOfAssets DEF IInv, AssetsOK
        <4>3. KeyOf(lassid_to_asset[b]) \in DOMAIN asset_to_lassid'
          BY <2>3, <4>1, <4>2
        <4>4. QED
          BY <2>3, <4>1, <4>3
      <3>3. QED
        <4>1. /\ \A j \in DOMAIN asset_to_lassid' :
                   /\ asset_to_lassid'[j] \in Assets'
                   /\ HasToken(lassid_to_asset'[asset_to_lassid'[j]].type)
                   /\ KeyOf(lassid_to_asset'[asset_to_lassid'[j]]) = j
              /\ \A b \in Assets' :
                   HasToken(lassid_to_asset'[b].type) =>
                     /\ KeyOf(lassid_to_asset'[b]) \in DOMAIN asset_to_lassid'
                     /\ asset_to_lassid'[KeyOf(lassid_to_asset'[b])] = b
          BY <3>1, <3>2
        <4>2. QED
          BY <4>1 DEF AssetKeysMatch, KeyOfAsset, KeyOf
    <2>5. BaseIsUnique'
      BY <1>2, <2>1 DEF IInv, AssetsOK, BaseIsUnique
    <2>6. AssetsOK'
      BY <1>2, <2>1, <2>3, <2>4, <2>5 DEF IInv, AssetsOK
    <2>7. AccountsOK'
      BY <1>2 DEF IInv, AccountsOK, AccountKeysMatch, accountVars, Accounts
    <2>8. TableFits'
      BY <1>2, <2>1 DEF IInv, TableFits, Fits, accountVars, Assets
    <2>9. OneHand'
      BY <1>2, <2>1 DEF IInv, OneHand, Supply
    <2>10. QED
      BY <1>2, <2>6, <2>7, <2>8, <2>9 DEF IInv, ResultOK
  <1>3. QED
    BY <1>1, <1>2 DEF RemoveAsset

LEMMA RetrieveAssetKeeps ==
  ASSUME IInv, NEW op, NEW found \in BOOLEAN, NEW a, found => a \in Assets,
         NEW type \in AssetTypes,
         NEW token \in Tokens \cup {Zero}, NEW token_id \in TokenIds \cup {Zero},
         FieldsFit([type |-> type, token_address |-> token,
                    token_id |-> token_id, supply |-> 0]),
         RetrieveAsset(op, found, a, type, token, token_id)
  PROVE  IInv'
  <1>1. CASE Return("SUCCESS") \/ Return("ASSET_NOT_FOUND")
    BY <1>1, ReturnKeeps DEF Errors
  <1>2. CASE found /\ RemoveAsset(a)
    BY <1>2, RemoveAssetKeeps
  <1>3. CASE CreateAsset(type, token, token_id)
    BY <1>3, CreateAssetKeeps
  <1>4. QED
    BY <1>1, <1>2, <1>3 DEF RetrieveAsset

LEMMA AssetByIdKeeps ==
  ASSUME IInv, NEW op, NEW type \in AssetTypes, ~HasToken(type), NEW id,
         RetrieveAssetById(op, type, id)
  PROVE  IInv'
  <1>1. PICK sought : RetrieveAsset(op, sought \in Assets, sought, type, Zero, Zero)
    BY DEF RetrieveAssetById
  <1>2. (sought \in Assets) \in BOOLEAN
    OBVIOUS
  <1>3. FieldsFit([type |-> type, token_address |-> Zero,
                   token_id |-> Zero, supply |-> 0])
    BY DEF FieldsFit
  <1>4. QED
    BY <1>1, <1>2, <1>3, RetrieveAssetKeeps

LEMMA AssetByTokenKeeps ==
  ASSUME IInv, NEW op, NEW type \in AssetTypes, HasToken(type),
         NEW token \in Tokens \cup {Zero}, NEW token_id \in TokenIds \cup {Zero},
         RetrieveAssetByToken(op, type, token, token_id)
  PROVE  IInv'
  <1> DEFINE key   == AssetKey(type, token, token_id)
             found == key \in DOMAIN asset_to_lassid
             a     == asset_to_lassid[key]
             tid   == IF HasTokenId(type) THEN token_id ELSE Zero
  <1>1. RetrieveAsset(op, found, a, type, token, tid)
    BY DEF RetrieveAssetByToken
  <1>2. found => a \in Assets
    BY DEF IInv, AssetsOK, AssetKeysMatch
  <1>3. FieldsFit([type |-> type, token_address |-> token,
                   token_id |-> tid, supply |-> 0])
    BY DEF FieldsFit
  <1>4. tid \in TokenIds \cup {Zero} /\ found \in BOOLEAN
    OBVIOUS
  <1> HIDE DEF found, a, tid
  <1>5. QED
    BY <1>1, <1>2, <1>3, <1>4, RetrieveAssetKeeps

LEMMA AssetCallKeeps ==
  ASSUME IInv, AssetCall
  PROVE  IInv'
  <1> PICK op \in Ops, type \in AskedAssets :
        \/ ~HasToken(type) /\ \E id \in AssetIds : RetrieveAssetById(op, type, id)
        \/ /\ HasToken(type)
           /\ \E token \in Tokens, token_id \in TokenIds :
                RetrieveAssetByToken(op, type, token, token_id)
    BY DEF AssetCall
  <1>1. type \in AssetTypes
    BY LedgerAssumption
  <1>2. QED
    BY <1>1, AssetByIdKeeps, AssetByTokenKeeps

-----------------------------------------------------------------------------
(* The calls about accounts. *)

LEMMA CreateAccountKeeps ==
  ASSUME IInv, NEW type \in AccountTypes, NEW bytes \in Bytes32 \cup {Zero},
         type = "WALLET_ADDRESS" => bytes \in Wallets,
         CreateAccount(type, bytes)
  PROVE  IInv'
  <1> DEFINE id      == next_account_id
             account == [type |-> type, account_id |-> bytes]
  <1>1. CASE Return("MAX_ACCOUNTS_REACHED") \/ Return("INSERTION_ERROR")
    BY <1>1, ReturnKeeps DEF Errors
  <1>2. CASE /\ id < MaxAccounts
             /\ ~(HasAccountKey(type) /\ bytes \in DOMAIN account_to_laccid)
             /\ laccid_to_account' = Insert(laccid_to_account, id, account)
             /\ account_to_laccid' =
                  IF HasAccountKey(type) THEN Insert(account_to_laccid, bytes, id)
                                         ELSE account_to_laccid
             /\ next_account_id' = id + 1
             /\ result' = "SUCCESS"
             /\ UNCHANGED <<assetVars, table>>
    <2>1. /\ MaxAccounts \in Nat
          /\ id \in AccountIds /\ id \in Nat /\ id < MaxAccounts
          /\ account \in AccountRecord
          /\ id \notin Accounts
      BY <1>2, TypesAssumption DEF IInv, AccountsOK, AccountIds, AccountRecord
    <2>2. /\ Accounts' = Accounts \cup {id}
          /\ laccid_to_account' \in [Accounts' -> AccountRecord]
          /\ laccid_to_account'[id] = account
          /\ \A u \in Accounts : laccid_to_account'[u] = laccid_to_account[u]
      <3>1. laccid_to_account \in [DOMAIN laccid_to_account -> AccountRecord]
        BY DEF IInv, AccountsOK, Accounts
      <3> DEFINE accounts == Insert(laccid_to_account, id, account)
      <3> HIDE DEF id, account
      <3>2. /\ DOMAIN accounts = DOMAIN laccid_to_account \cup {id}
            /\ accounts \in [DOMAIN laccid_to_account \cup {id} -> AccountRecord]
            /\ accounts[id] = account
            /\ \A u \in DOMAIN laccid_to_account :
                 u # id => accounts[u] = laccid_to_account[u]
        BY <2>1, <3>1 DEF Insert
      <3>3. laccid_to_account' = accounts
        BY <1>2
      <3> HIDE DEF accounts
      <3>4. QED
        BY <2>1, <3>2, <3>3 DEF Accounts
    <2>3. /\ account_to_laccid' \in [DOMAIN account_to_laccid' -> AccountIds]
          /\ HasAccountKey(type) =>
               /\ bytes \notin DOMAIN account_to_laccid
               /\ DOMAIN account_to_laccid' = DOMAIN account_to_laccid \cup {bytes}
               /\ account_to_laccid'[bytes] = id
               /\ \A j \in DOMAIN account_to_laccid :
                    account_to_laccid'[j] = account_to_laccid[j]
          /\ ~HasAccountKey(type) => account_to_laccid' = account_to_laccid
      <3>1. account_to_laccid \in [DOMAIN account_to_laccid -> AccountIds]
        BY DEF IInv, AccountsOK
      <3> DEFINE keys == Insert(account_to_laccid, bytes, id)
      <3>2. account_to_laccid' = IF HasAccountKey(type) THEN keys
                                                        ELSE account_to_laccid
        BY <1>2
      <3> HIDE DEF id
      <3>3. /\ DOMAIN keys = DOMAIN account_to_laccid \cup {bytes}
            /\ keys \in [DOMAIN account_to_laccid \cup {bytes} -> AccountIds]
            /\ keys[bytes] = id
            /\ \A j \in DOMAIN account_to_laccid :
                 j # bytes => keys[j] = account_to_laccid[j]
        BY <2>1, <3>1 DEF Insert
      <3> HIDE DEF keys
      <3>4. QED
        BY <1>2, <3>1, <3>2, <3>3
    <2> HIDE DEF id
    <2>4. AccountKeysMatch'
      <3>1. ASSUME NEW j \in DOMAIN account_to_laccid'
            PROVE  /\ account_to_laccid'[j] \in Accounts'
                   /\ HasAccountKey(laccid_to_account'[account_to_laccid'[j]].type)
                   /\ laccid_to_account'[account_to_laccid'[j]].account_id = j
        <4>1. CASE j \in DOMAIN account_to_laccid
          <5>1. /\ account_to_laccid'[j] = account_to_laccid[j]
                /\ account_to_laccid[j] \in Accounts
                /\ HasAccountKey(laccid_to_account[account_to_laccid[j]].type)
                /\ laccid_to_account[account_to_laccid[j]].account_id = j
            BY <2>3, <4>1 DEF IInv, AccountsOK, AccountKeysMatch
          <5>2. QED
            BY <2>2, <5>1
        <4>2. CASE j \notin DOMAIN account_to_laccid
          <5>1. HasAccountKey(type) /\ j = bytes /\ account_to_laccid'[j] = id
            BY <2>3, <4>2
          <5>2. QED
            BY <2>2, <5>1
        <4>3. QED
          BY <4>1, <4>2
      <3>2. ASSUME NEW u \in Accounts', HasAccountKey(laccid_to_account'[u].type)
            PROVE  /\ laccid_to_account'[u].account_id \in DOMAIN account_to_laccid'
                   /\ account_to_laccid'[laccid_to_account'[u].account_id] = u
        <4>1. CASE u \in Accounts
          <5>1. /\ laccid_to_account[u].account_id \in DOMAIN account_to_laccid
                /\ account_to_laccid[laccid_to_account[u].account_id] = u
            BY <2>2, <3>2, <4>1 DEF IInv, AccountsOK, AccountKeysMatch
          <5>2. QED
            BY <2>2, <2>3, <4>1, <5>1
        <4>2. CASE u \notin Accounts
          BY <2>2, <2>3, <3>2, <4>2
        <4>3. QED
          BY <4>1, <4>2
      <3>3. QED
        BY <3>1, <3>2 DEF AccountKeysMatch
    <2>5. AccountsOK'
      <3>1. \A u \in Accounts : u \in Nat /\ u < id
        BY DEF IInv, AccountsOK, AccountIds, id
      <3>2. next_account_id' \in 0..MaxAccounts /\ Accounts' \subseteq AccountIds
        BY <1>2, <2>1, <2>2 DEF IInv, AccountsOK, id
      <3>3. \A u \in Accounts' :
              /\ u < next_account_id'
              /\ laccid_to_account'[u].type = "WALLET_ADDRESS" =>
                   laccid_to_account'[u].account_id \in Wallets
        BY <1>2, <2>1, <2>2, <3>1 DEF IInv, AccountsOK, id
      <3>4. QED
        BY <2>2, <2>3, <2>4, <3>2, <3>3 DEF AccountsOK
    <2>6. AssetsOK'
      BY <1>2 DEF IInv, AssetsOK, AssetKeysMatch, BaseIsUnique, assetVars,
                  Assets, KeyOfAsset
    <2>7. TableFits'
      BY <1>2, <2>2 DEF IInv, TableFits, Fits, assetVars, Accounts
    <2>8. OneHand'
      BY <1>2 DEF IInv, OneHand, assetVars, Assets, Supply
    <2>9. QED
      BY <1>2, <2>5, <2>6, <2>7, <2>8 DEF IInv, ResultOK
  <1>3. QED
    BY <1>1, <1>2 DEF CreateAccount

\* An account with no entry counted has no entry.
LEMMA NoneCounted ==
  ASSUME NEW s, WellFormed(s), NEW u \in AccountIds, ~(s.n_balances[u] > 0)
  PROVE  \A k \in Entries(s) : k[2] # u
  <1>1. IsFiniteSet(EntriesOf(s, u))
    BY FS_Subset DEF WellFormed, WithinLimit, EntriesOf
  <1>2. s.n_balances[u] = Cardinality(EntriesOf(s, u)) /\ s.n_balances[u] \in Nat
    BY DEF WellFormed, CountsMatch, TableType
  <1>3. EntriesOf(s, u) = {}
    <2>1. Cardinality(EntriesOf(s, u)) = 0
      BY <1>2
    <2>2. QED
      BY <1>1, <2>1, FS_EmptySet
  <1>4. QED
    BY <1>3 DEF EntriesOf

LEMMA RemoveAccountKeeps ==
  ASSUME IInv, NEW u \in Accounts, RemoveAccount(u)
  PROVE  IInv'
  <1>1. CASE Return("ACCOUNT_BALANCE")
    BY <1>1, ReturnKeeps DEF Errors
  <1>2. CASE /\ ~AccountInUse(u)
             /\ laccid_to_account' = Erase(laccid_to_account, u)
             /\ account_to_laccid' =
                  IF HasAccountKey(laccid_to_account[u].type)
                  THEN Erase(account_to_laccid, laccid_to_account[u].account_id)
                  ELSE account_to_laccid
             /\ result' = "SUCCESS"
             /\ UNCHANGED <<next_account_id, assetVars, table>>
    <2> DEFINE bytes == laccid_to_account[u].account_id
               keyed == HasAccountKey(laccid_to_account[u].type)
    <2>1. /\ Accounts' = Accounts \ {u}
          /\ laccid_to_account' \in [Accounts' -> AccountRecord]
          /\ \A w \in Accounts' : laccid_to_account'[w] = laccid_to_account[w]
      <3>1. laccid_to_account \in [DOMAIN laccid_to_account -> AccountRecord]
        BY DEF IInv, AccountsOK, Accounts
      <3> DEFINE accounts == Erase(laccid_to_account, u)
      <3>2. /\ DOMAIN accounts = DOMAIN laccid_to_account \ {u}
            /\ accounts \in [DOMAIN laccid_to_account \ {u} -> AccountRecord]
            /\ \A w \in DOMAIN laccid_to_account :
                 w # u => accounts[w] = laccid_to_account[w]
        BY <3>1, EraseFacts
      <3>3. laccid_to_account' = accounts
        BY <1>2
      <3> HIDE DEF accounts
      <3>4. QED
        BY <3>2, <3>3 DEF Accounts
    <2>2. /\ account_to_laccid' \in [DOMAIN account_to_laccid' -> AccountIds]
          /\ DOMAIN account_to_laccid' = IF keyed
                                         THEN DOMAIN account_to_laccid \ {bytes}
                                         ELSE DOMAIN account_to_laccid
          /\ \A j \in DOMAIN account_to_laccid' :
               account_to_laccid'[j] = account_to_laccid[j]
      <3>1. account_to_laccid \in [DOMAIN account_to_laccid -> AccountIds]
        BY DEF IInv, AccountsOK
      <3> DEFINE keys == Erase(account_to_laccid, bytes)
      <3>2. account_to_laccid' = IF keyed THEN keys ELSE account_to_laccid
        BY <1>2
      <3> HIDE DEF bytes
      <3>3. /\ DOMAIN keys = DOMAIN account_to_laccid \ {bytes}
            /\ keys \in [DOMAIN account_to_laccid \ {bytes} -> AccountIds]
            /\ \A j \in DOMAIN account_to_laccid :
                 j # bytes => keys[j] = account_to_laccid[j]
        BY <3>1, EraseFacts
      <3> HIDE DEF keys, keyed
      <3>4. QED
        BY <3>1, <3>2, <3>3
    <2>3. keyed => account_to_laccid[bytes] = u
      BY DEF IInv, AccountsOK, AccountKeysMatch
    <2>4. AccountKeysMatch'
      <3>1. ASSUME NEW j \in DOMAIN account_to_laccid'
            PROVE  /\ account_to_laccid'[j] \in Accounts'
                   /\ HasAccountKey(laccid_to_account'[account_to_laccid'[j]].type)
                   /\ laccid_to_account'[account_to_laccid'[j]].account_id = j
        <4>1. /\ account_to_laccid'[j] = account_to_laccid[j]
              /\ account_to_laccid[j] \in Accounts
              /\ HasAccountKey(laccid_to_account[account_to_laccid[j]].type)
              /\ laccid_to_account[account_to_laccid[j]].account_id = j
          BY <2>2 DEF IInv, AccountsOK, AccountKeysMatch
        <4>2. account_to_laccid[j] # u
          BY <2>2, <4>1
        <4>3. QED
          BY <2>1, <4>1, <4>2
      <3>2. ASSUME NEW w \in Accounts', HasAccountKey(laccid_to_account'[w].type)
            PROVE  /\ laccid_to_account'[w].account_id \in DOMAIN account_to_laccid'
                   /\ account_to_laccid'[laccid_to_account'[w].account_id] = w
        <4>1. /\ w \in Accounts /\ w # u
              /\ laccid_to_account'[w] = laccid_to_account[w]
              /\ laccid_to_account[w].account_id \in DOMAIN account_to_laccid
              /\ account_to_laccid[laccid_to_account[w].account_id] = w
          BY <2>1, <3>2 DEF IInv, AccountsOK, AccountKeysMatch
        <4>2. laccid_to_account[w].account_id \in DOMAIN account_to_laccid'
          BY <2>2, <2>3, <4>1
        <4>3. QED
          BY <2>2, <4>1, <4>2
      <3>3. QED
        BY <3>1, <3>2 DEF AccountKeysMatch
    <2>5. AccountsOK'
      BY <1>2, <2>1, <2>2, <2>4 DEF IInv, AccountsOK
    <2>6. AssetsOK'
      BY <1>2 DEF IInv, AssetsOK, AssetKeysMatch, BaseIsUnique, assetVars,
                  Assets, KeyOfAsset
    <2>7. \A k \in Entries(table) : k[2] # u
      <3>1. u \in AccountIds /\ WellFormed(table)
        BY DEF IInv, AccountsOK, TableFits, Fits
      <3>2. QED
        BY <1>2, <3>1, NoneCounted DEF AccountInUse
    <2>8. TableFits'
      BY <1>2, <2>1, <2>7 DEF IInv, TableFits, Fits, assetVars, Accounts
    <2>9. OneHand'
      BY <1>2 DEF IInv, OneHand, assetVars, Assets, Supply
    <2>10. QED
      BY <1>2, <2>5, <2>6, <2>8, <2>9 DEF IInv, ResultOK
  <1>3. QED
    BY <1>1, <1>2 DEF RemoveAccount

LEMMA RetrieveAccountKeeps ==
  ASSUME IInv, NEW op, NEW found \in BOOLEAN, NEW u, found => u \in Accounts,
         NEW kind \in AccountTypes, NEW bytes \in Bytes32 \cup {Zero},
         kind = "WALLET_ADDRESS" => bytes \in Wallets,
         RetrieveAccount(op, found, u, kind, bytes)
  PROVE  IInv'
  <1>1. CASE Return("SUCCESS") \/ Return("ACCOUNT_NOT_FOUND")
    BY <1>1, ReturnKeeps DEF Errors
  <1>2. CASE found /\ RemoveAccount(u)
    BY <1>2, RemoveAccountKeeps
  <1>3. CASE CreateAccount(kind, bytes)
    BY <1>3, CreateAccountKeeps
  <1>4. QED
    BY <1>1, <1>2, <1>3 DEF RetrieveAccount

LEMMA AccountByIdKeeps ==
  ASSUME IInv, NEW op, NEW id, RetrieveAccountById(op, id)
  PROVE  IInv'
  <1>1. RetrieveAccount(op, id \in Accounts, id, "ID", Zero)
    BY DEF RetrieveAccountById
  <1>2. (id \in Accounts) \in BOOLEAN
    OBVIOUS
  <1>3. "ID" \in AccountTypes /\ Zero \in Bytes32 \cup {Zero}
    BY DEF AccountTypes
  <1>4. QED
    BY <1>1, <1>2, <1>3, RetrieveAccountKeeps

LEMMA AccountByBytesKeeps ==
  ASSUME IInv, NEW op, NEW type \in AccountTypes, NEW bytes \in Bytes32,
         type = "WALLET_ADDRESS" => bytes \in Wallets, NEW as_struct \in BOOLEAN,
         RetrieveAccountByBytes(op, type, bytes, as_struct)
  PROVE  IInv'
  <1> DEFINE found == bytes \in DOMAIN account_to_laccid
             u     == account_to_laccid[bytes]
             kind  == AccountTypeOf(type, bytes, as_struct)
  <1>1. RetrieveAccount(op, found, u, kind, bytes)
    BY DEF RetrieveAccountByBytes
  <1>2. found => u \in Accounts
    BY DEF IInv, AccountsOK, AccountKeysMatch
  <1>3. /\ kind \in AccountTypes
        /\ kind = "WALLET_ADDRESS" => bytes \in Wallets
        /\ bytes \in Bytes32 \cup {Zero}
    BY DEF AccountTypeOf, AccountTypes, Bytes32
  <1>4. found \in BOOLEAN
    OBVIOUS
  <1> HIDE DEF found, u, kind
  <1>5. QED
    BY <1>1, <1>2, <1>3, <1>4, RetrieveAccountKeeps

LEMMA AccountCallKeeps ==
  ASSUME IInv, AccountCall
  PROVE  IInv'
  <1> PICK op \in Ops, type \in AskedAccounts :
        \/ type = "ID" /\ \E id \in AccountIds : RetrieveAccountById(op, id)
        \/ /\ HasAccountKey(type)
           /\ \E bytes \in IF type = "WALLET_ADDRESS" THEN Wallets ELSE Bytes32,
                 as_struct \in BOOLEAN :
                RetrieveAccountByBytes(op, type, bytes, as_struct)
    BY DEF AccountCall
  <1>1. type \in AccountTypes
    BY LedgerAssumption
  <1>2. ASSUME NEW bytes \in IF type = "WALLET_ADDRESS" THEN Wallets ELSE Bytes32,
               NEW as_struct \in BOOLEAN,
               RetrieveAccountByBytes(op, type, bytes, as_struct)
        PROVE  IInv'
    <2>1. bytes \in Bytes32 /\ (type = "WALLET_ADDRESS" => bytes \in Wallets)
      BY DEF Bytes32
    <2>2. QED
      BY <1>1, <1>2, <2>1, AccountByBytesKeeps
  <1>3. QED
    BY <1>2, AccountByIdKeeps

-----------------------------------------------------------------------------
(* The calls about balances. *)

\* What setting the supply of one asset leaves.
LEMMA SupplySet ==
  ASSUME IInv, NEW a \in Assets, NEW amount \in Amounts,
         SetAssetSupply(a, amount), UnchangedButSupplyAndTable
  PROVE  /\ Assets' = Assets
         /\ AssetsOK'
         /\ AccountsOK'
         /\ \A b \in Assets :
              /\ lassid_to_asset'[b].type = lassid_to_asset[b].type
              /\ lassid_to_asset'[b].supply =
                   IF b = a THEN amount ELSE lassid_to_asset[b].supply
         /\ \A t : Fits(t, lassid_to_asset, laccid_to_account, next_asset_id)
                     => Fits(t, lassid_to_asset, laccid_to_account, next_asset_id)'
  <1>1. \A b \in Assets : lassid_to_asset[b] \in AssetRecord
    BY DEF IInv, AssetsOK
  <1>2. /\ Assets' = Assets
        /\ lassid_to_asset' \in [Assets' -> AssetRecord]
        /\ \A b \in Assets :
             /\ lassid_to_asset'[b].type = lassid_to_asset[b].type
             /\ lassid_to_asset'[b].token_address = lassid_to_asset[b].token_address
             /\ lassid_to_asset'[b].token_id = lassid_to_asset[b].token_id
             /\ lassid_to_asset'[b].supply =
                  IF b = a THEN amount ELSE lassid_to_asset[b].supply
    BY <1>1 DEF SetAssetSupply, IInv, AssetsOK, Assets, AssetRecord
  <1>3. \A b \in Assets : KeyOf(lassid_to_asset'[b]) = KeyOf(lassid_to_asset[b])
    BY <1>2 DEF KeyOf
  <1>4. AssetKeysMatch'
    <2>1. /\ \A j \in DOMAIN asset_to_lassid :
               /\ asset_to_lassid[j] \in Assets
               /\ HasToken(lassid_to_asset'[asset_to_lassid[j]].type)
               /\ KeyOf(lassid_to_asset'[asset_to_lassid[j]]) = j
          /\ \A b \in Assets :
               HasToken(lassid_to_asset'[b].type) =>
                 /\ KeyOf(lassid_to_asset'[b]) \in DOMAIN asset_to_lassid
                 /\ asset_to_lassid[KeyOf(lassid_to_asset'[b])] = b
      BY <1>2, <1>3, KeysOfAssets DEF IInv, AssetsOK
    <2>2. asset_to_lassid' = asset_to_lassid
      BY DEF UnchangedButSupplyAndTable
    <2>3. QED
      BY <1>2, <2>1, <2>2 DEF AssetKeysMatch, KeyOfAsset, KeyOf
  <1>5. BaseIsUnique'
    BY <1>2 DEF IInv, AssetsOK, BaseIsUnique, UnchangedButSupplyAndTable
  <1>6. \A b \in Assets' : b < next_asset_id' /\ FieldsFit(lassid_to_asset'[b])
    BY <1>2 DEF IInv, AssetsOK, FieldsFit, UnchangedButSupplyAndTable
  <1>7. AssetsOK'
    BY <1>2, <1>4, <1>5, <1>6 DEF IInv, AssetsOK, UnchangedButSupplyAndTable
  <1>8. AccountsOK'
    BY DEF IInv, AccountsOK, AccountKeysMatch, accountVars, Accounts,
           UnchangedButSupplyAndTable
  <1>9. ASSUME NEW t,
               Fits(t, lassid_to_asset, laccid_to_account, next_asset_id)
        PROVE  Fits(t, lassid_to_asset', laccid_to_account', next_asset_id')
    <2>1. laccid_to_account' = laccid_to_account /\ next_asset_id' = next_asset_id
      BY DEF UnchangedButSupplyAndTable, accountVars
    <2>2. ASSUME NEW k \in Entries(t), k[1] \in Assets,
                 NEW account,
                 EntryFits(t, k, lassid_to_asset[k[1]], account)
          PROVE  EntryFits(t, k, lassid_to_asset'[k[1]], account)
      BY <1>2, <2>2 DEF EntryFits, Proved, HeaderOf
    <2>3. QED
      BY <1>2, <1>9, <2>1, <2>2 DEF Fits, Assets
  <1>10. QED
    BY <1>2, <1>7, <1>8, <1>9

\* What an assignment does to the balances of its asset and of the others.
LEMMA AssignedRow ==
  ASSUME NEW s, NEW t, WellFormed(s), NEW a \in AssetIds, NEW u \in AccountIds,
         NEW amount, Assigned(s, t, <<a, u>>, amount)
  PROVE  /\ \A w \in AccountIds : BalanceOf(s, <<a, w>>) \in Nat
         /\ \A w \in AccountIds :
              BalanceOf(t, <<a, w>>) = IF w = u THEN amount
                                                ELSE BalanceOf(s, <<a, w>>)
         /\ \A b \in AssetIds : b # a =>
              \A w \in AccountIds : BalanceOf(t, <<b, w>>) = BalanceOf(s, <<b, w>>)
  <1>1. \A w \in AccountIds : BalanceOf(s, <<a, w>>) \in Nat
    BY BalanceType, TypesAssumption DEF Amounts
  <1>2. \A b \in AssetIds, w \in AccountIds :
          /\ <<b, w>> \in Key
          /\ <<b, w>> = <<a, u>> <=> b = a /\ w = u
    BY DEF Key
  <1>3. QED
    BY <1>1, <1>2 DEF Assigned

LEMMA OtherSingle ==
  ASSUME NEW s, NEW t, WellFormed(s), NEW a \in AssetIds, NEW u \in AccountIds,
         NEW amount, Assigned(s, t, <<a, u>>, amount),
         NEW b \in AssetIds, b # a, NEW supply, SingleIn(s, b, supply)
  PROVE  SingleIn(t, b, supply)
  <1>1. \A w \in AccountIds : BalanceOf(t, <<b, w>>) = BalanceOf(s, <<b, w>>)
    BY AssignedRow
  <1>2. QED
    BY <1>1 DEF SingleIn

\* A change to a single asset that takes no hand over the supply, and leaves
\* others with nothing when it leaves something.
LEMMA SingleKept ==
  ASSUME NEW s, NEW t, WellFormed(s), NEW a \in AssetIds, NEW u \in AccountIds,
         NEW amount \in Nat, Assigned(s, t, <<a, u>>, amount),
         NEW supply \in Nat, supply <= 1, amount <= supply,
         \A w \in AccountIds : w # u =>
           /\ BalanceOf(s, <<a, w>>) <= supply
           /\ amount > 0 => BalanceOf(s, <<a, w>>) = 0,
         \A v, w \in AccountIds :
           BalanceOf(s, <<a, v>>) > 0 /\ BalanceOf(s, <<a, w>>) > 0 => v = w
  PROVE  SingleIn(t, a, supply)
  <1>1. \A w \in AccountIds :
          BalanceOf(t, <<a, w>>) = IF w = u THEN amount
                                            ELSE BalanceOf(s, <<a, w>>)
    BY AssignedRow
  <1>2. \A w \in AccountIds : BalanceOf(s, <<a, w>>) \in Nat
    BY AssignedRow
  <1> DEFINE had(w) == BalanceOf(s, <<a, w>>)
             has(w) == BalanceOf(t, <<a, w>>)
  <1>3. /\ \A w \in AccountIds : has(w) = IF w = u THEN amount ELSE had(w)
        /\ \A w \in AccountIds : had(w) \in Nat
        /\ \A w \in AccountIds : w # u =>
             had(w) <= supply /\ (amount > 0 => had(w) = 0)
        /\ \A v, w \in AccountIds : had(v) > 0 /\ had(w) > 0 => v = w
    BY <1>1, <1>2
  <1> HIDE DEF had, has
  <1>4. \A w \in AccountIds : has(w) <= supply
    BY <1>3
  <1>5. \A v, w \in AccountIds : has(v) > 0 /\ has(w) > 0 => v = w
    BY <1>3
  <1>6. QED
    BY <1>4, <1>5 DEF SingleIn, has

\* A deposit or a withdrawal that took effect.
LEMMA OneBalanceSet ==
  ASSUME IInv, NEW a \in Assets, NEW u \in Accounts, ~NoRoom(table, a, u),
         NEW amount \in Amounts, NEW supply \in Amounts,
         table' = SetAccountAssetBalance(table, a, u, amount),
         SetAssetSupply(a, supply), UnchangedButSupplyAndTable,
         result' = "SUCCESS",
         lassid_to_asset[a].type = "TOKEN_ADDRESS_ID" => SingleIn(table', a, supply)
  PROVE  IInv'
  <1>1. /\ Fits(table', lassid_to_asset, laccid_to_account, next_asset_id)
        /\ Assigned(table, table', <<a, u>>, amount)
    BY SetKeepsFit DEF IInv, TableFits
  <1>2. /\ Assets' = Assets
        /\ AssetsOK'
        /\ AccountsOK'
        /\ \A b \in Assets :
             /\ lassid_to_asset'[b].type = lassid_to_asset[b].type
             /\ lassid_to_asset'[b].supply =
                  IF b = a THEN supply ELSE lassid_to_asset[b].supply
    BY SupplySet
  <1>3. TableFits'
    BY <1>1, SupplySet DEF TableFits
  <1>4. /\ WellFormed(table) /\ a \in AssetIds /\ u \in AccountIds
        /\ Assets \subseteq AssetIds
    BY DEF IInv, TableFits, Fits, AssetsOK, AccountsOK
  <1>5. OneHand'
    <2> SUFFICES ASSUME NEW b \in Assets',
                        lassid_to_asset'[b].type = "TOKEN_ADDRESS_ID"
                 PROVE  SingleIn(table', b, lassid_to_asset'[b].supply)
      BY DEF OneHand, Supply
    <2>1. CASE b = a
      BY <1>2, <2>1
    <2>2. CASE b # a
      <3>1. SingleIn(table, b, lassid_to_asset[b].supply)
        BY <1>2 DEF IInv, OneHand, Supply
      <3>2. QED
        BY <1>1, <1>2, <1>4, <2>2, <3>1, OtherSingle
    <2>3. QED
      BY <2>1, <2>2
  <1>6. QED
    BY <1>2, <1>3, <1>5 DEF IInv, ResultOK

LEMMA AmountFacts ==
  ASSUME IInv, NEW a \in Assets, NEW u \in Accounts
  PROVE  /\ MaxAmount \in Nat /\ Amounts = 0..MaxAmount
         /\ Supply(a) \in Amounts
         /\ Balance(a, u) \in Amounts
         /\ a \in AssetIds /\ u \in AccountIds
         /\ WellFormed(table)
         /\ lassid_to_asset[a].type = "TOKEN_ADDRESS_ID" =>
              SingleIn(table, a, Supply(a))
  <1>1. WellFormed(table)
    BY DEF IInv, TableFits, Fits
  <1>2. QED
    BY <1>1, BalanceType, TypesAssumption
       DEF IInv, AssetsOK, AccountsOK, OneHand, Supply, Balance, AssetRecord,
           Amounts

LEMMA DepositKeeps ==
  ASSUME IInv, NEW a \in AssetIds, NEW u \in AccountIds, NEW amount \in Amounts,
         Deposit(a, u, amount)
  PROVE  IInv'
  <1>1. CASE DepositError(a, u, amount) # "SUCCESS"
    <2>1. DepositError(a, u, amount) \in Errors \cup {"SUCCESS"}
      BY DEF DepositError, Errors
    <2>2. Return(DepositError(a, u, amount))
      BY <1>1 DEF Deposit
    <2>3. QED
      BY <2>1, <2>2, ReturnKeeps
  <1>2. CASE DepositError(a, u, amount) = "SUCCESS"
    <2> DEFINE b == Balance(a, u)
               s == Supply(a)
    <2>1. /\ a \in Assets /\ u \in Accounts
          /\ ~(s + amount > MaxAmount) /\ ~(b + amount > MaxAmount)
          /\ ~SecondUnit(a, amount)
          /\ ~NoRoom(table, a, u)
      BY <1>2 DEF DepositError
    <2>2. /\ MaxAmount \in Nat /\ Amounts = 0..MaxAmount
          /\ s \in Amounts /\ b \in Amounts
          /\ WellFormed(table)
      BY <2>1, AmountFacts
    <2>3. s + amount \in Amounts /\ b + amount \in Amounts
      BY <2>1, <2>2
    <2>4. /\ table' = SetAccountAssetBalance(table, a, u, b + amount)
          /\ SetAssetSupply(a, s + amount)
          /\ UnchangedButSupplyAndTable
          /\ result' = "SUCCESS"
      BY <1>2 DEF Deposit
    <2>5. ASSUME lassid_to_asset[a].type = "TOKEN_ADDRESS_ID"
          PROVE  SingleIn(table', a, s + amount)
      <3>1. s = 0 /\ amount = 1
        BY <2>1, <2>5 DEF SecondUnit
      <3>2. SingleIn(table, a, 0)
        BY <2>1, <2>5, <3>1, AmountFacts
      <3>3. \A w \in AccountIds : BalanceOf(table, <<a, w>>) \in Nat
        BY <2>2, BalanceType DEF Amounts
      <3>4. \A w \in AccountIds : BalanceOf(table, <<a, w>>) = 0
        BY <3>2, <3>3 DEF SingleIn
      <3>5. b + amount = 1 /\ s + amount = 1
        BY <3>1, <3>4 DEF Balance
      <3>6. Assigned(table, table', <<a, u>>, 1)
        BY <2>1, <2>3, <2>4, <3>5, SetKeepsFit DEF IInv, TableFits
      <3>7. SingleIn(table', a, 1)
        BY <2>2, <3>4, <3>6, SingleKept
      <3>8. QED
        BY <3>5, <3>7
    <2> HIDE DEF b, s
    <2>6. QED
      BY <2>1, <2>3, <2>4, <2>5, OneBalanceSet
  <1>3. QED
    BY <1>1, <1>2

LEMMA WithdrawKeeps ==
  ASSUME IInv, NEW a \in AssetIds, NEW u \in AccountIds, NEW amount \in Amounts,
         Withdraw(a, u, amount)
  PROVE  IInv'
  <1>1. CASE WithdrawError(a, u, amount) # "SUCCESS"
    <2>1. WithdrawError(a, u, amount) \in Errors \cup {"SUCCESS"}
      BY DEF WithdrawError, Errors
    <2>2. Return(WithdrawError(a, u, amount))
      BY <1>1 DEF Withdraw
    <2>3. QED
      BY <2>1, <2>2, ReturnKeeps
  <1>2. CASE WithdrawError(a, u, amount) = "SUCCESS"
    <2> DEFINE b == Balance(a, u)
               s == Supply(a)
    <2>1. /\ a \in Assets /\ u \in Accounts
          /\ ~(amount > s) /\ ~(amount > b)
          /\ ~NoRoom(table, a, u)
      BY <1>2 DEF WithdrawError
    <2>2. /\ MaxAmount \in Nat /\ Amounts = 0..MaxAmount
          /\ s \in Amounts /\ b \in Amounts
          /\ WellFormed(table)
      BY <2>1, AmountFacts
    <2>3. /\ s - amount \in Amounts /\ b - amount \in Amounts
          /\ s - amount \in Nat /\ b - amount \in Nat
      BY <2>1, <2>2
    <2>4. /\ table' = SetAccountAssetBalance(table, a, u, b - amount)
          /\ SetAssetSupply(a, s - amount)
          /\ UnchangedButSupplyAndTable
          /\ result' = "SUCCESS"
      BY <1>2 DEF Withdraw
    <2>5. ASSUME lassid_to_asset[a].type = "TOKEN_ADDRESS_ID"
          PROVE  SingleIn(table', a, s - amount)
      <3>1. SingleIn(table, a, s)
        BY <2>1, <2>5, AmountFacts
      <3>2. \A w \in AccountIds : BalanceOf(table, <<a, w>>) \in Nat
        BY <2>2, BalanceType DEF Amounts
      <3>3. Assigned(table, table', <<a, u>>, b - amount)
        BY <2>1, <2>3, <2>4, SetKeepsFit DEF IInv, TableFits
      <3>4. /\ s \in Nat /\ b \in Nat /\ amount \in Nat
            /\ s <= 1 /\ b <= s /\ b = BalanceOf(table, <<a, u>>)
        BY <2>2, <3>1 DEF SingleIn, Balance
      <3>5. s - amount <= 1 /\ b - amount <= s - amount
        BY <2>3, <3>4
      <3>6. ASSUME NEW w \in AccountIds, w # u
            PROVE  /\ BalanceOf(table, <<a, w>>) <= s - amount
                   /\ b - amount > 0 => BalanceOf(table, <<a, w>>) = 0
        <4>1. /\ BalanceOf(table, <<a, w>>) <= s
              /\ b > 0 => BalanceOf(table, <<a, w>>) = 0
          BY <3>1, <3>2, <3>4, <3>6 DEF SingleIn
        <4>2. QED
          BY <2>1, <2>3, <3>2, <3>4, <4>1
      <3>7. \A v, w \in AccountIds :
              BalanceOf(table, <<a, v>>) > 0 /\ BalanceOf(table, <<a, w>>) > 0
                => v = w
        BY <3>1 DEF SingleIn
      <3> HIDE DEF b, s
      <3>8. QED
        BY <2>2, <2>3, <3>3, <3>5, <3>6, <3>7, SingleKept
    <2> HIDE DEF b, s
    <2>6. QED
      BY <2>1, <2>3, <2>4, <2>5, OneBalanceSet
  <1>3. QED
    BY <1>1, <1>2

\* A transfer that passed its checks: the debit and, with room, the credit.
LEMMA TransferDebits ==
  ASSUME IInv, NEW a \in AssetIds, NEW from \in AccountIds, NEW to \in AccountIds,
         NEW amount \in Amounts,
         TransferError(a, from, to, amount) = "SUCCESS",
         NEW debited, debited = Debited(a, from, amount)
  PROVE  /\ a \in Assets /\ from \in Accounts /\ to \in Accounts /\ from # to
         /\ amount <= Balance(a, from)
         /\ Balance(a, from) - amount \in Amounts
         /\ Balance(a, to) + amount \in Amounts
         /\ Fits(debited, lassid_to_asset, laccid_to_account, next_asset_id)
         /\ Assigned(table, debited, <<a, from>>, Balance(a, from) - amount)
         /\ \A b \in Assets :
              lassid_to_asset[b].type = "TOKEN_ADDRESS_ID" =>
                SingleIn(debited, b, Supply(b))
  <1> DEFINE left == Balance(a, from) - amount
  <1>1. /\ a \in Assets /\ from \in Accounts /\ to \in Accounts /\ from # to
        /\ ~(amount > Balance(a, from))
        /\ ~(Balance(a, to) + amount > MaxAmount)
        /\ ~NoRoom(table, a, from)
    BY DEF TransferError
  <1>2. /\ MaxAmount \in Nat /\ Amounts = 0..MaxAmount
        /\ Balance(a, from) \in Amounts /\ Balance(a, to) \in Amounts
        /\ WellFormed(table)
    BY <1>1, AmountFacts
  <1>3. /\ amount <= Balance(a, from)
        /\ left \in Amounts /\ left \in Nat
        /\ Balance(a, to) + amount \in Amounts
    BY <1>1, <1>2
  <1>4. debited = SetAccountAssetBalance(table, a, from, left)
    BY DEF Debited
  <1> HIDE DEF left
  <1>5. Fits(debited, lassid_to_asset, laccid_to_account, next_asset_id)
    BY <1>1, <1>3, <1>4, SetKeepsFit DEF IInv, TableFits
  <1>6. Assigned(table, debited, <<a, from>>, left)
    BY <1>1, <1>3, <1>4, SetKeepsFit DEF IInv, TableFits
  <1>7. ASSUME NEW b \in Assets, lassid_to_asset[b].type = "TOKEN_ADDRESS_ID"
        PROVE  SingleIn(debited, b, Supply(b))
    <2>1. SingleIn(table, b, Supply(b)) /\ b \in AssetIds
      BY <1>7 DEF IInv, OneHand, AssetsOK
    <2>2. CASE b # a
      BY <1>2, <1>6, <2>1, <2>2, OtherSingle
    <2>3. CASE b = a
      <3>1. /\ Supply(a) \in Nat /\ Supply(a) <= 1
            /\ left <= Supply(a)
        <4>1. /\ Supply(a) \in Nat /\ Supply(a) <= 1
              /\ Balance(a, from) <= Supply(a)
          BY <1>1, <1>2, <2>1, <2>3, AmountFacts DEF SingleIn, Balance
        <4>2. QED
          BY <1>2, <4>1 DEF left
      <3>2. \A w \in AccountIds : BalanceOf(table, <<a, w>>) \in Nat
        BY <1>2, BalanceType DEF Amounts
      <3>3. left > 0 => BalanceOf(table, <<a, from>>) > 0
        BY <1>2, <1>3 DEF left, Balance
      <3>4. \A w \in AccountIds : w # from =>
              /\ BalanceOf(table, <<a, w>>) <= Supply(a)
              /\ left > 0 => BalanceOf(table, <<a, w>>) = 0
        BY <2>1, <2>3, <3>2, <3>3 DEF SingleIn
      <3>5. \A v, w \in AccountIds :
              BalanceOf(table, <<a, v>>) > 0 /\ BalanceOf(table, <<a, w>>) > 0
                => v = w
        BY <2>1, <2>3 DEF SingleIn
      <3>6. SingleIn(debited, a, Supply(a))
        BY <1>2, <1>3, <1>6, <3>1, <3>4, <3>5, SingleKept
      <3>7. QED
        BY <2>3, <3>6
    <2>4. QED
      BY <2>2, <2>3
  <1>8. QED
    BY <1>1, <1>3, <1>5, <1>6, <1>7 DEF left

LEMMA TransferCredits ==
  ASSUME IInv, NEW a \in AssetIds, NEW from \in AccountIds, NEW to \in AccountIds,
         NEW amount \in Amounts,
         TransferError(a, from, to, amount) = "SUCCESS",
         NEW debited, debited = Debited(a, from, amount),
         ~NoRoom(debited, a, to),
         NEW t, t = SetAccountAssetBalance(debited, a, to, Balance(a, to) + amount)
  PROVE  /\ Fits(t, lassid_to_asset, laccid_to_account, next_asset_id)
         /\ \A b \in Assets :
              lassid_to_asset[b].type = "TOKEN_ADDRESS_ID" =>
                SingleIn(t, b, Supply(b))
  <1> DEFINE more == Balance(a, to) + amount
  <1>1. /\ a \in Assets /\ from \in Accounts /\ to \in Accounts /\ from # to
        /\ amount <= Balance(a, from)
        /\ more \in Amounts
        /\ Fits(debited, lassid_to_asset, laccid_to_account, next_asset_id)
        /\ \A b \in Assets :
             lassid_to_asset[b].type = "TOKEN_ADDRESS_ID" =>
               SingleIn(debited, b, Supply(b))
    BY TransferDebits
  <1>2. Assigned(table, debited, <<a, from>>, Balance(a, from) - amount)
    BY TransferDebits
  <1>3. /\ MaxAmount \in Nat /\ Amounts = 0..MaxAmount
        /\ Balance(a, from) \in Nat /\ Balance(a, to) \in Nat
        /\ WellFormed(table)
    BY <1>1, AmountFacts
  <1>4. WellFormed(debited)
    BY <1>1 DEF Fits
  <1> HIDE DEF more
  <1>5. Fits(t, lassid_to_asset, laccid_to_account, next_asset_id)
    BY <1>1, SetKeepsFit DEF IInv, more
  <1>6. Assigned(debited, t, <<a, to>>, more)
    BY <1>1, SetKeepsFit DEF IInv, more
  <1>7. ASSUME NEW b \in Assets, lassid_to_asset[b].type = "TOKEN_ADDRESS_ID"
        PROVE  SingleIn(t, b, Supply(b))
    <2>1. SingleIn(debited, b, Supply(b)) /\ b \in AssetIds
      BY <1>1, <1>7 DEF IInv, AssetsOK
    <2>2. CASE b # a
      BY <1>4, <1>6, <2>1, <2>2, OtherSingle
    <2>3. CASE b = a
      <3>1. /\ \A w \in AccountIds : BalanceOf(table, <<a, w>>) \in Nat
            /\ \A w \in AccountIds :
                 BalanceOf(debited, <<a, w>>) =
                   IF w = from THEN Balance(a, from) - amount
                               ELSE BalanceOf(table, <<a, w>>)
        <4> DEFINE left == Balance(a, from) - amount
        <4>1. Assigned(table, debited, <<a, from>>, left)
          BY <1>2
        <4> HIDE DEF left
        <4>2. /\ \A w \in AccountIds : BalanceOf(table, <<a, w>>) \in Nat
              /\ \A w \in AccountIds :
                   BalanceOf(debited, <<a, w>>) =
                     IF w = from THEN left ELSE BalanceOf(table, <<a, w>>)
          BY <1>3, <4>1, AssignedRow
        <4>3. QED
          BY <4>2 DEF left
      <3>2. /\ Supply(a) \in Nat /\ Supply(a) <= 1
            /\ \A w \in AccountIds : BalanceOf(table, <<a, w>>) <= Supply(a)
            /\ \A v, w \in AccountIds :
                 BalanceOf(table, <<a, v>>) > 0 /\ BalanceOf(table, <<a, w>>) > 0
                   => v = w
        BY <1>1, <1>3, <1>7, <2>3, AmountFacts DEF SingleIn
      <3>3. \A w \in AccountIds : BalanceOf(debited, <<a, w>>) \in Nat
        BY <1>3, <1>4, BalanceType DEF Amounts
      <3>4. \A v, w \in AccountIds :
              BalanceOf(debited, <<a, v>>) > 0 /\ BalanceOf(debited, <<a, w>>) > 0
                => v = w
        BY <2>1, <2>3 DEF SingleIn
      <3> DEFINE had(w) == BalanceOf(table, <<a, w>>)
                 has(w) == BalanceOf(debited, <<a, w>>)
                 n      == Supply(a)
      <3>5. /\ \A w \in AccountIds : had(w) \in Nat /\ had(w) <= n
            /\ \A w \in AccountIds : has(w) = IF w = from THEN had(from) - amount
                                                          ELSE had(w)
            /\ \A v, w \in AccountIds : had(v) > 0 /\ had(w) > 0 => v = w
            /\ n \in Nat /\ n <= 1
            /\ amount \in Nat /\ amount <= had(from) /\ more = had(to) + amount
            /\ more \in Nat
        <4>1. /\ \A w \in AccountIds : had(w) \in Nat /\ had(w) <= n
              /\ \A v, w \in AccountIds : had(v) > 0 /\ had(w) > 0 => v = w
              /\ n \in Nat /\ n <= 1
          BY <3>1, <3>2
        <4>2. had(from) = Balance(a, from) /\ had(to) = Balance(a, to)
          BY DEF Balance
        <4>3. \A w \in AccountIds :
                has(w) = IF w = from THEN had(from) - amount ELSE had(w)
          BY <3>1, <4>2
        <4>4. more = had(to) + amount
          BY <4>2 DEF more
        <4>5. amount \in Nat /\ amount <= had(from) /\ more \in Nat
          BY <1>1, <1>3, <4>2
        <4>6. QED
          BY <4>1, <4>3, <4>4, <4>5
      <3> HIDE DEF had, has, n
      <3>6. CASE amount = 0
        <4>1. /\ more <= n
              /\ \A w \in AccountIds : w # to =>
                   has(w) <= n /\ (more > 0 => has(w) = 0)
          BY <3>5, <3>6
        <4>2. SingleIn(t, a, n)
          BY <1>4, <1>6, <3>4, <3>5, <4>1, SingleKept DEF has
        <4>3. QED
          BY <2>3, <4>2 DEF n
      <3>7. CASE amount # 0
        <4>1. amount = 1 /\ had(from) = 1 /\ n = 1
          BY <3>5, <3>7
        <4>2. \A w \in AccountIds : w # from => had(w) = 0
          BY <3>5, <4>1
        <4>3. \A w \in AccountIds : has(w) = 0
          BY <3>5, <4>1, <4>2
        <4>4. more = 1
          BY <1>1, <3>5, <4>1, <4>2
        <4>5. SingleIn(t, a, n)
          BY <1>4, <1>6, <3>4, <3>5, <4>1, <4>3, <4>4, SingleKept DEF has
        <4>6. QED
          BY <2>3, <4>5 DEF n
      <3>8. QED
        BY <3>6, <3>7
    <2>4. QED
      BY <2>2, <2>3
  <1>8. QED
    BY <1>5, <1>7

LEMMA TransferKeeps ==
  ASSUME IInv, NEW a \in AssetIds, NEW from \in AccountIds, NEW to \in AccountIds,
         NEW amount \in Amounts, Transfer(a, from, to, amount)
  PROVE  IInv'
  <1>1. CASE TransferError(a, from, to, amount) # "SUCCESS"
    <2>1. TransferError(a, from, to, amount) \in Errors \cup {"SUCCESS"}
      BY DEF TransferError, Errors
    <2>2. Return(TransferError(a, from, to, amount))
      BY <1>1 DEF Transfer
    <2>3. QED
      BY <2>1, <2>2, ReturnKeeps
  <1>2. CASE TransferError(a, from, to, amount) = "SUCCESS"
    <2> DEFINE debited == Debited(a, from, amount)
    <2>1. UNCHANGED <<assetVars, accountVars>>
      BY <1>2 DEF Transfer
    <2>2. /\ Fits(table', lassid_to_asset, laccid_to_account, next_asset_id)
          /\ \A b \in Assets :
               lassid_to_asset[b].type = "TOKEN_ADDRESS_ID" =>
                 SingleIn(table', b, Supply(b))
          /\ result' \in Errors \cup {"SUCCESS"}
      <3>1. CASE table' = debited /\ result' = "MAX_BALANCES_REACHED"
        <4>1. "MAX_BALANCES_REACHED" \in Errors
          BY DEF Errors
        <4>2. QED
          BY <1>2, <3>1, <4>1, TransferDebits
      <3>2. CASE /\ ~NoRoom(debited, a, to)
                 /\ table' = SetAccountAssetBalance(debited, a, to,
                                                    Balance(a, to) + amount)
                 /\ result' = "SUCCESS"
        BY <1>2, <3>2, TransferCredits
      <3>3. QED
        BY <1>2, <3>1, <3>2 DEF Transfer
    <2>3. AssetsOK'
      BY <2>1 DEF IInv, AssetsOK, AssetKeysMatch, BaseIsUnique, assetVars,
                  Assets, KeyOfAsset
    <2>4. AccountsOK'
      BY <2>1 DEF IInv, AccountsOK, AccountKeysMatch, accountVars, Accounts
    <2>5. TableFits' /\ OneHand' /\ ResultOK'
      BY <2>1, <2>2 DEF TableFits, OneHand, ResultOK, assetVars, accountVars,
                        Assets, Supply
    <2>6. QED
      BY <2>3, <2>4, <2>5 DEF IInv
  <1>3. QED
    BY <1>1, <1>2

LEMMA ResetKeeps ==
  ASSUME IInv, Reset
  PROVE  IInv'
  <1>1. table' = EmptyTable
    BY ClearTableEmpties DEF Reset, IInv, TableFits, Fits
  <1>2. /\ Assets' = {} /\ Accounts' = {}
        /\ DOMAIN asset_to_lassid' = {} /\ DOMAIN account_to_laccid' = {}
    BY DEF Reset, Assets, Accounts
  <1>3. AssetsOK'
    <2>1. AssetKeysMatch' /\ BaseIsUnique'
      BY <1>2 DEF AssetKeysMatch, BaseIsUnique
    <2>2. /\ lassid_to_asset' \in [Assets' -> AssetRecord]
          /\ asset_to_lassid' \in [DOMAIN asset_to_lassid' -> AssetIds]
      BY <1>2 DEF Reset, Assets
    <2>3. QED
      BY <1>2, <2>1, <2>2 DEF IInv, AssetsOK, Reset
  <1>4. AccountsOK'
    <2>1. AccountKeysMatch'
      BY <1>2 DEF AccountKeysMatch
    <2>2. /\ laccid_to_account' \in [Accounts' -> AccountRecord]
          /\ account_to_laccid' \in [DOMAIN account_to_laccid' -> AccountIds]
      BY <1>2 DEF Reset, Accounts
    <2>3. QED
      BY <1>2, <2>1, <2>2 DEF IInv, AccountsOK, Reset
  <1>5. TableFits'
    BY <1>1, EmptyTableWellFormed DEF TableFits, Fits
  <1>6. OneHand' /\ ResultOK'
    BY <1>2 DEF OneHand, ResultOK, Reset
  <1>7. QED
    BY <1>3, <1>4, <1>5, <1>6 DEF IInv

-----------------------------------------------------------------------------
(* The theorems. *)

LEMMA NextIInv == IInv /\ [Next]_vars => IInv'
  <1> SUFFICES ASSUME IInv, [Next]_vars
               PROVE  IInv'
    OBVIOUS
  <1>1. CASE AssetCall
    BY <1>1, AssetCallKeeps
  <1>2. CASE AccountCall
    BY <1>2, AccountCallKeeps
  <1>3. CASE BalanceCall
    <2>1. PICK a \in AssetIds, u \in AccountIds, amount \in Amounts :
            \/ Deposit(a, u, amount)
            \/ Withdraw(a, u, amount)
            \/ \E to \in AccountIds : Transfer(a, u, to, amount)
      BY <1>3 DEF BalanceCall
    <2>2. QED
      BY <2>1, DepositKeeps, WithdrawKeeps, TransferKeeps
  <1>4. CASE Reset
    BY <1>4, ResetKeeps
  <1>5. CASE UNCHANGED vars
    <2>1. UNCHANGED ledger /\ ResultOK'
      BY <1>5 DEF vars, IInv, ResultOK
    <2>2. QED
      BY <2>1, SameLedger
  <1>6. QED
    BY <1>1, <1>2, <1>3, <1>4, <1>5 DEF Next

THEOREM Invariance == Spec => []IInv
  <1>1. QED
    BY InitIInv, NextIInv, PTL DEF Spec

\* The maps and the table keep their types: no supply, balance or id leaves
\* its range.
THEOREM TypeCorrect == Spec => []TypeOK
  <1>1. IInv => TypeOK
    BY DEF IInv, AssetsOK, AccountsOK, TableFits, Fits, WellFormed, ResultOK,
           TypeOK
  <1>2. QED
    BY <1>1, Invariance, PTL

\* Key maps and id maps describe the same assets and accounts, next ids are
\* free, and at most one base asset exists: the insertions and look-ups the
\* code marks "shouldn't be here" never fail.
THEOREM RegistryHolds == Spec => []Registry
  <1>1. IInv => Registry
    BY DEF IInv, AssetsOK, AccountsOK, TableFits, Fits, Registry, IdsGivenOut
  <1>2. QED
    BY <1>1, Invariance, PTL

\* The table stays packed and counted whatever the calls.
THEOREM TableHolds == Spec => []TableOK
  <1>1. IInv => TableOK
    BY DEF IInv, TableFits, Fits, TableOK
  <1>2. QED
    BY <1>1, Invariance, PTL

\* A record in the array, which its owner can prove and withdraw, carries
\* the type, owner and token of the live pair it belongs to.
THEOREM RecordsHold == Spec => []RecordsMatchRegistry
  <1>1. IInv => RecordsMatchRegistry
    BY DEF IInv, TableFits, Fits, EntryFits, Proved, HeaderOf,
           RecordsMatchRegistry, IsWithdrawable, HeaderFor, Assets, Accounts
  <1>2. QED
    BY <1>1, Invariance, PTL

\* The one unit of a token id is in one hand at most, although transfer
\* makes no check of it.
THEOREM OneHandHolds == Spec => []TokenIdIsSingle
  <1>1. IInv => TokenIdIsSingle
    BY DEF IInv, OneHand, SingleIn, TokenIdIsSingle, Balance
  <1>2. QED
    BY <1>1, Invariance, PTL

-----------------------------------------------------------------------------
(* What a step may never do. *)

\* No step but a creation adds an id, and that one is the next id.
LEMMA OneAssetMore ==
  ASSUME IInv, NEW type, NEW token, NEW token_id,
         CreateAsset(type, token, token_id)
  PROVE  /\ \A a \in Assets' \ Assets : a >= next_asset_id
         /\ next_asset_id' >= next_asset_id
         /\ UNCHANGED accountVars
  <1>1. next_asset_id \in Int
    BY DEF IInv, AssetsOK
  <1>2. CASE UNCHANGED ledger
    BY <1>1, <1>2 DEF ledger, assetVars, Assets
  <1>3. CASE /\ Assets' = Assets \cup {next_asset_id}
             /\ next_asset_id' = next_asset_id + 1
             /\ UNCHANGED accountVars
    BY <1>1, <1>3
  <1>4. QED
    BY <1>2, <1>3 DEF CreateAsset, NewAssetId, Return, Insert, Assets, ledger

LEMMA OneAccountMore ==
  ASSUME IInv, NEW type, NEW bytes, CreateAccount(type, bytes)
  PROVE  /\ \A u \in Accounts' \ Accounts : u >= next_account_id
         /\ next_account_id' >= next_account_id
         /\ UNCHANGED assetVars
  <1>1. next_account_id \in Int
    BY DEF IInv, AccountsOK
  <1>2. CASE UNCHANGED ledger
    BY <1>1, <1>2 DEF ledger, accountVars, Accounts
  <1>3. CASE /\ Accounts' = Accounts \cup {next_account_id}
             /\ next_account_id' = next_account_id + 1
             /\ UNCHANGED assetVars
    BY <1>1, <1>3
  <1>4. QED
    BY <1>2, <1>3 DEF CreateAccount, Return, Insert, Accounts, ledger

\* An id is given out once, removals and resets included.
THEOREM IdsHold == Spec => IdsNeverReused
  <1> DEFINE Grow == /\ \A a \in Assets' \ Assets : a >= next_asset_id
                     /\ \A u \in Accounts' \ Accounts : u >= next_account_id
                     /\ next_asset_id' >= next_asset_id
                     /\ next_account_id' >= next_account_id
  <1>1. ASSUME IInv, [Next]_vars
        PROVE  [Grow]_vars
    <2>1. next_asset_id \in Int /\ next_account_id \in Int
      BY <1>1 DEF IInv, AssetsOK, AccountsOK
    <2>2. CASE /\ Assets' \subseteq Assets /\ Accounts' \subseteq Accounts
               /\ UNCHANGED <<next_asset_id, next_account_id>>
      BY <2>1, <2>2
    <2>3. CASE AssetCall
      <3>1. CASE \E type, token, token_id : CreateAsset(type, token, token_id)
        BY <1>1, <2>1, <3>1, OneAssetMore DEF accountVars, Accounts
      <3>2. CASE (\E a : RemoveAsset(a)) \/ UNCHANGED ledger
        <4>1. /\ Assets' \subseteq Assets
              /\ UNCHANGED <<next_asset_id, accountVars>>
          BY <3>2 DEF RemoveAsset, Return, ledger, assetVars, Assets, Erase,
                      Restrict
        <4>2. QED
          BY <2>2, <4>1 DEF accountVars, Accounts
      <3>3. QED
        BY <2>3, <3>1, <3>2 DEF AssetCall, RetrieveAssetById,
           RetrieveAssetByToken, RetrieveAsset, Return
    <2>4. CASE AccountCall
      <3>1. CASE \E type, bytes : CreateAccount(type, bytes)
        BY <1>1, <2>1, <3>1, OneAccountMore DEF assetVars, Assets
      <3>2. CASE (\E u : RemoveAccount(u)) \/ UNCHANGED ledger
        <4>1. /\ Accounts' \subseteq Accounts
              /\ UNCHANGED <<next_account_id, assetVars>>
          BY <3>2 DEF RemoveAccount, Return, ledger, accountVars, Accounts,
                      Erase, Restrict
        <4>2. QED
          BY <2>2, <4>1 DEF assetVars, Assets
      <3>3. QED
        BY <2>4, <3>1, <3>2 DEF AccountCall, RetrieveAccountById,
           RetrieveAccountByBytes, RetrieveAccount, Return
    <2>5. CASE BalanceCall
      <3>1. /\ Assets' = Assets
            /\ UNCHANGED <<next_asset_id, accountVars>>
        BY <2>5 DEF BalanceCall, Deposit, Withdraw, Transfer, Return, ledger,
                    assetVars, Assets, SetAssetSupply, UnchangedButSupplyAndTable
      <3>2. QED
        BY <2>2, <3>1 DEF accountVars, Accounts
    <2>6. CASE Reset
      BY <2>2, <2>6 DEF Reset, Assets, Accounts
    <2>7. QED
      BY <1>1, <2>3, <2>4, <2>5, <2>6 DEF Next
  <1>2. QED
    BY <1>1, Invariance, PTL DEF Spec, IdsNeverReused

\* A call that fails has no effect, but for the debit of a transfer that
\* found no room for the receiver.
THEOREM FailureHolds == Spec => FailureChangesNothing
  <1> DEFINE HalfTransfer ==
               /\ result' = "MAX_BALANCES_REACHED"
               /\ UNCHANGED <<assetVars, accountVars>>
               /\ \E k \in Key :
                    /\ BalanceOf(table', k) <= BalanceOf(table, k)
                    /\ \A other \in Key \ {k} :
                         BalanceOf(table', other) = BalanceOf(table, other)
             Clean == result' # "SUCCESS" => UNCHANGED ledger \/ HalfTransfer
  <1>1. ASSUME IInv, [Next]_vars
        PROVE  [Clean]_vars
    <2>1. CASE AssetCall
      <3>1. \/ \E type, token, token_id : CreateAsset(type, token, token_id)
            \/ \E a : RemoveAsset(a)
            \/ UNCHANGED ledger
        BY <2>1 DEF AssetCall, RetrieveAssetById, RetrieveAssetByToken,
           RetrieveAsset, Return
      <3>2. ASSUME NEW type, NEW token, NEW token_id,
                   CreateAsset(type, token, token_id)
            PROVE  result' = "SUCCESS" \/ UNCHANGED ledger
        BY <3>2 DEF CreateAsset, Return
      <3>3. ASSUME NEW a, RemoveAsset(a)
            PROVE  result' = "SUCCESS" \/ UNCHANGED ledger
        BY <3>3 DEF RemoveAsset, Return
      <3>4. QED
        BY <3>1, <3>2, <3>3
    <2>2. CASE AccountCall
      <3>1. \/ \E type, bytes : CreateAccount(type, bytes)
            \/ \E u : RemoveAccount(u)
            \/ UNCHANGED ledger
        BY <2>2 DEF AccountCall, RetrieveAccountById, RetrieveAccountByBytes,
           RetrieveAccount, Return
      <3>2. ASSUME NEW type, NEW bytes, CreateAccount(type, bytes)
            PROVE  result' = "SUCCESS" \/ UNCHANGED ledger
        BY <3>2 DEF CreateAccount, Return
      <3>3. ASSUME NEW u, RemoveAccount(u)
            PROVE  result' = "SUCCESS" \/ UNCHANGED ledger
        BY <3>3 DEF RemoveAccount, Return
      <3>4. QED
        BY <3>1, <3>2, <3>3
    <2>3. CASE BalanceCall
      <3>1. PICK a \in AssetIds, u \in AccountIds, amount \in Amounts :
              \/ Deposit(a, u, amount)
              \/ Withdraw(a, u, amount)
              \/ \E to \in AccountIds : Transfer(a, u, to, amount)
        BY <2>3 DEF BalanceCall
      <3>2. CASE Deposit(a, u, amount) \/ Withdraw(a, u, amount)
        <4>1. result' # "SUCCESS" => UNCHANGED ledger
          BY <3>2 DEF Deposit, Withdraw, Return
        <4>2. QED
          BY <4>1
      <3>3. ASSUME NEW to \in AccountIds, Transfer(a, u, to, amount)
            PROVE  Clean
        <4>1. CASE TransferError(a, u, to, amount) # "SUCCESS"
          <5>1. UNCHANGED ledger
            BY <3>3, <4>1 DEF Transfer, Return
          <5>2. QED
            BY <5>1
        <4>2. CASE /\ TransferError(a, u, to, amount) = "SUCCESS"
                   /\ result' # "SUCCESS"
          <5>1. /\ table' = Debited(a, u, amount)
                /\ result' = "MAX_BALANCES_REACHED"
                /\ UNCHANGED <<assetVars, accountVars>>
            BY <3>3, <4>2 DEF Transfer
          <5> DEFINE left == Balance(a, u) - amount
          <5>2. Assigned(table, table', <<a, u>>, left)
            BY <1>1, <4>2, <5>1, TransferDebits
          <5>3. left <= Balance(a, u) /\ <<a, u>> \in Key
            <6>1. a \in Assets /\ u \in Accounts
              BY <4>2 DEF TransferError
            <6>2. Balance(a, u) \in Int /\ amount \in Nat
              BY <1>1, <6>1, AmountFacts
            <6>3. QED
              BY <6>2 DEF Key
          <5> HIDE DEF left
          <5>4. /\ BalanceOf(table', <<a, u>>) <= BalanceOf(table, <<a, u>>)
                /\ \A other \in Key \ {<<a, u>>} :
                     BalanceOf(table', other) = BalanceOf(table, other)
            BY <5>2, <5>3 DEF Assigned, Balance
          <5>5. HalfTransfer
            BY <5>1, <5>3, <5>4
          <5>6. QED
            BY <5>5
        <4>3. QED
          BY <4>1, <4>2
      <3>4. QED
        BY <3>1, <3>2, <3>3
    <2>4. CASE Reset
      BY <2>4 DEF Reset
    <2>5. CASE UNCHANGED vars
      BY <2>5
    <2>6. QED
      BY <1>1, <2>1, <2>2, <2>3, <2>4, <2>5 DEF Next
  <1>2. QED
    BY <1>1, Invariance, PTL DEF Spec, FailureChangesNothing
-----------------------------------------------------------------------------
(* What a call does, told by its effects.  The properties about the supply *)
(* and the refinement below follow from these.                             *)

AssetAdded(single) ==
  /\ next_asset_id \in AssetIds \ Assets
  /\ Assets' = Assets \cup {next_asset_id}
  /\ \A a \in Assets : lassid_to_asset'[a] = lassid_to_asset[a]
  /\ lassid_to_asset'[next_asset_id].supply = 0
  /\ lassid_to_asset'[next_asset_id].type = "TOKEN_ADDRESS_ID" <=> single
  /\ UNCHANGED <<accountVars, table>>

AssetGone(a) ==
  /\ a \in Assets
  /\ Supply(a) = 0
  /\ Assets' = Assets \ {a}
  /\ \A b \in Assets' : lassid_to_asset'[b] = lassid_to_asset[b]
  /\ UNCHANGED <<accountVars, table>>

AccountAdded ==
  /\ next_account_id \in AccountIds \ Accounts
  /\ Accounts' = Accounts \cup {next_account_id}
  /\ UNCHANGED <<assetVars, table>>

AccountGone(u) ==
  /\ u \in Accounts
  /\ \A k \in Entries(table) : k[2] # u
  /\ Accounts' = Accounts \ {u}
  /\ UNCHANGED <<assetVars, table>>

\* The balance of a pair and the supply of its asset are set.
Moved(a, u, amount, supply) ==
  /\ a \in Assets /\ u \in Accounts
  /\ amount \in Amounts /\ supply \in Amounts
  /\ Assets' = Assets
  /\ \A b \in Assets :
       /\ lassid_to_asset'[b].type = lassid_to_asset[b].type
       /\ lassid_to_asset'[b].supply =
            IF b = a THEN supply ELSE lassid_to_asset[b].supply
  /\ Assigned(table, table', <<a, u>>, amount)
  /\ UNCHANGED accountVars

Deposited(a, u, amount) ==
  /\ Moved(a, u, Balance(a, u) + amount, Supply(a) + amount)
  /\ lassid_to_asset[a].type = "TOKEN_ADDRESS_ID" => Supply(a) + amount <= 1

Withdrawn(a, u, amount) ==
  /\ Moved(a, u, Balance(a, u) - amount, Supply(a) - amount)
  /\ amount <= Balance(a, u)

\* The first half of a transfer: s is the table once the sender is debited.
Sent(s, a, from, to, amount) ==
  /\ a \in Assets /\ {from, to} \subseteq Accounts /\ from # to
  /\ amount <= Balance(a, from)
  /\ WellFormed(s)
  /\ Balance(a, from) - amount \in Amounts
  /\ Assigned(table, s, <<a, from>>, Balance(a, from) - amount)
  /\ UNCHANGED <<assetVars, accountVars>>

Stopped(s, a, from, to, amount) ==
  /\ Sent(s, a, from, to, amount)
  /\ NoRoom(s, a, to)
  /\ table' = s
  /\ result' = "MAX_BALANCES_REACHED"

Transferred(s, a, from, to, amount) ==
  /\ Sent(s, a, from, to, amount)
  /\ Balance(a, to) + amount \in Amounts
  /\ Assigned(s, table', <<a, to>>, Balance(a, to) + amount)

Emptied ==
  /\ Assets' = {} /\ Accounts' = {}
  /\ table' = EmptyTable

Effect ==
  \/ UNCHANGED ledger
  \/ \E single \in BOOLEAN : AssetAdded(single)
  \/ \E a \in AssetIds : AssetGone(a)
  \/ AccountAdded
  \/ \E u \in AccountIds : AccountGone(u)
  \/ \E a \in AssetIds, u \in AccountIds, amount \in Amounts :
       \/ Deposited(a, u, amount)
       \/ Withdrawn(a, u, amount)
       \/ \E to \in AccountIds : \E s :
            \/ Stopped(s, a, u, to, amount)
            \/ Transferred(s, a, u, to, amount)
  \/ Emptied

LEMMA CreateAssetEffect ==
  ASSUME IInv, NEW type, NEW token, NEW token_id,
         CreateAsset(type, token, token_id)
  PROVE  Effect
  <1>1. CASE UNCHANGED ledger
    BY <1>1 DEF Effect
  <1>2. CASE /\ RoomForAsset
             /\ lassid_to_asset' =
                  Insert(lassid_to_asset, next_asset_id,
                         [type |-> type, token_address |-> token,
                          token_id |-> token_id, supply |-> 0])
             /\ UNCHANGED <<accountVars, table>>
    <2>1. next_asset_id \in AssetIds \ Assets
      BY <1>2, TypesAssumption DEF RoomForAsset, IInv, AssetsOK, AssetIds
    <2>2. /\ Assets' = Assets \cup {next_asset_id}
          /\ \A a \in Assets : lassid_to_asset'[a] = lassid_to_asset[a]
          /\ lassid_to_asset'[next_asset_id] =
               [type |-> type, token_address |-> token,
                token_id |-> token_id, supply |-> 0]
      BY <1>2, <2>1 DEF Insert, Assets
    <2>3. AssetAdded(type = "TOKEN_ADDRESS_ID")
      BY <1>2, <2>1, <2>2 DEF AssetAdded
    <2>4. (type = "TOKEN_ADDRESS_ID") \in BOOLEAN
      OBVIOUS
    <2>5. QED
      BY <2>3, <2>4 DEF Effect
  <1>3. QED
    BY <1>1, <1>2 DEF CreateAsset, NewAssetId, Return

LEMMA RemoveAssetEffect ==
  ASSUME IInv, NEW a \in Assets, RemoveAsset(a)
  PROVE  Effect
  <1>1. CASE UNCHANGED ledger
    BY <1>1 DEF Effect
  <1>2. CASE /\ ~AssetInUse(a)
             /\ lassid_to_asset' = Erase(lassid_to_asset, a)
             /\ UNCHANGED <<accountVars, table>>
    <2>1. /\ Assets' = Assets \ {a}
          /\ \A b \in Assets' : lassid_to_asset'[b] = lassid_to_asset[b]
      BY <1>2 DEF Erase, Restrict, Assets
    <2>2. AssetGone(a)
      BY <1>2, <2>1 DEF AssetGone, AssetInUse, Supply
    <2>3. QED
      BY <2>2 DEF Effect, IInv, AssetsOK
  <1>3. QED
    BY <1>1, <1>2 DEF RemoveAsset, Return

LEMMA RetrieveAssetEffect ==
  ASSUME IInv, NEW op, NEW found \in BOOLEAN, NEW a, found => a \in Assets,
         NEW type, NEW token, NEW token_id,
         RetrieveAsset(op, found, a, type, token, token_id)
  PROVE  Effect
  <1>1. CASE Return("SUCCESS") \/ Return("ASSET_NOT_FOUND")
    BY <1>1 DEF Return, Effect
  <1>2. CASE found /\ RemoveAsset(a)
    BY <1>2, RemoveAssetEffect
  <1>3. CASE CreateAsset(type, token, token_id)
    BY <1>3, CreateAssetEffect
  <1>4. QED
    BY <1>1, <1>2, <1>3 DEF RetrieveAsset

LEMMA AssetByIdEffect ==
  ASSUME IInv, NEW op, NEW type, NEW id, RetrieveAssetById(op, type, id)
  PROVE  Effect
  <1>1. PICK sought : RetrieveAsset(op, sought \in Assets, sought, type, Zero, Zero)
    BY DEF RetrieveAssetById
  <1>2. (sought \in Assets) \in BOOLEAN
    OBVIOUS
  <1>3. QED
    BY <1>1, <1>2, RetrieveAssetEffect

LEMMA AssetByTokenEffect ==
  ASSUME IInv, NEW op, NEW type, NEW token, NEW token_id,
         RetrieveAssetByToken(op, type, token, token_id)
  PROVE  Effect
  <1> DEFINE key   == AssetKey(type, token, token_id)
             found == key \in DOMAIN asset_to_lassid
             a     == asset_to_lassid[key]
  <1>1. PICK tid : RetrieveAsset(op, found, a, type, token, tid)
    BY DEF RetrieveAssetByToken
  <1>2. found => a \in Assets
    BY DEF IInv, AssetsOK, AssetKeysMatch
  <1>3. found \in BOOLEAN
    OBVIOUS
  <1> HIDE DEF found, a
  <1>4. QED
    BY <1>1, <1>2, <1>3, RetrieveAssetEffect

LEMMA AssetCallEffect ==
  ASSUME IInv, AssetCall
  PROVE  Effect
  BY AssetByIdEffect, AssetByTokenEffect DEF AssetCall

LEMMA CreateAccountEffect ==
  ASSUME IInv, NEW type, NEW bytes, CreateAccount(type, bytes)
  PROVE  Effect
  <1>1. CASE UNCHANGED ledger
    BY <1>1 DEF Effect
  <1>2. CASE /\ next_account_id < MaxAccounts
             /\ laccid_to_account' =
                  Insert(laccid_to_account, next_account_id,
                         [type |-> type, account_id |-> bytes])
             /\ UNCHANGED <<assetVars, table>>
    <2>1. next_account_id \in AccountIds \ Accounts
      BY <1>2, TypesAssumption DEF IInv, AccountsOK, AccountIds
    <2>2. Accounts' = Accounts \cup {next_account_id}
      BY <1>2 DEF Insert, Accounts
    <2>3. QED
      BY <1>2, <2>1, <2>2 DEF AccountAdded, Effect
  <1>3. QED
    BY <1>1, <1>2 DEF CreateAccount, Return

LEMMA RemoveAccountEffect ==
  ASSUME IInv, NEW u \in Accounts, RemoveAccount(u)
  PROVE  Effect
  <1>1. CASE UNCHANGED ledger
    BY <1>1 DEF Effect
  <1>2. CASE /\ ~AccountInUse(u)
             /\ laccid_to_account' = Erase(laccid_to_account, u)
             /\ UNCHANGED <<assetVars, table>>
    <2>1. u \in AccountIds /\ WellFormed(table)
      BY DEF IInv, AccountsOK, TableFits, Fits
    <2>2. \A k \in Entries(table) : k[2] # u
      BY <1>2, <2>1, NoneCounted DEF AccountInUse
    <2>3. Accounts' = Accounts \ {u}
      BY <1>2 DEF Erase, Restrict, Accounts
    <2>4. QED
      BY <1>2, <2>1, <2>2, <2>3 DEF AccountGone, Effect
  <1>3. QED
    BY <1>1, <1>2 DEF RemoveAccount, Return

LEMMA RetrieveAccountEffect ==
  ASSUME IInv, NEW op, NEW found \in BOOLEAN, NEW u, found => u \in Accounts,
         NEW type, NEW bytes, RetrieveAccount(op, found, u, type, bytes)
  PROVE  Effect
  <1>1. CASE Return("SUCCESS") \/ Return("ACCOUNT_NOT_FOUND")
    BY <1>1 DEF Return, Effect
  <1>2. CASE found /\ RemoveAccount(u)
    BY <1>2, RemoveAccountEffect
  <1>3. CASE CreateAccount(type, bytes)
    BY <1>3, CreateAccountEffect
  <1>4. QED
    BY <1>1, <1>2, <1>3 DEF RetrieveAccount

LEMMA AccountByIdEffect ==
  ASSUME IInv, NEW op, NEW id, RetrieveAccountById(op, id)
  PROVE  Effect
  <1>1. (id \in Accounts) \in BOOLEAN
    OBVIOUS
  <1>2. QED
    BY <1>1, RetrieveAccountEffect DEF RetrieveAccountById

LEMMA AccountByBytesEffect ==
  ASSUME IInv, NEW op, NEW type, NEW bytes, NEW as_struct,
         RetrieveAccountByBytes(op, type, bytes, as_struct)
  PROVE  Effect
  <1> DEFINE found == bytes \in DOMAIN account_to_laccid
             u     == account_to_laccid[bytes]
             kind  == AccountTypeOf(type, bytes, as_struct)
  <1>1. RetrieveAccount(op, found, u, kind, bytes)
    BY DEF RetrieveAccountByBytes
  <1>2. found => u \in Accounts
    BY DEF IInv, AccountsOK, AccountKeysMatch
  <1>3. found \in BOOLEAN
    OBVIOUS
  <1> HIDE DEF found, u, kind
  <1>4. QED
    BY <1>1, <1>2, <1>3, RetrieveAccountEffect

LEMMA AccountCallEffect ==
  ASSUME IInv, AccountCall
  PROVE  Effect
  BY AccountByIdEffect, AccountByBytesEffect DEF AccountCall

\* The facts about the pair a call names.
LEMMA DepositEffect ==
  ASSUME IInv, NEW a \in AssetIds, NEW u \in AccountIds, NEW amount \in Amounts,
         Deposit(a, u, amount)
  PROVE  Effect
  <1>1. CASE UNCHANGED ledger
    BY <1>1 DEF Effect
  <1>2. CASE DepositError(a, u, amount) = "SUCCESS"
    <2> DEFINE b == Balance(a, u)
               s == Supply(a)
    <2>1. /\ a \in Assets /\ u \in Accounts
          /\ ~(s + amount > MaxAmount) /\ ~(b + amount > MaxAmount)
          /\ ~SecondUnit(a, amount)
          /\ ~NoRoom(table, a, u)
      BY <1>2 DEF DepositError
    <2>2. /\ MaxAmount \in Nat /\ Amounts = 0..MaxAmount
          /\ s \in Amounts /\ b \in Amounts
      BY <2>1, AmountFacts
    <2>3. s + amount \in Amounts /\ b + amount \in Amounts
      BY <2>1, <2>2
    <2>4. /\ table' = SetAccountAssetBalance(table, a, u, b + amount)
          /\ SetAssetSupply(a, s + amount)
          /\ UnchangedButSupplyAndTable
      BY <1>2 DEF Deposit
    <2>5. Assigned(table, table', <<a, u>>, b + amount)
      BY <2>1, <2>3, <2>4, SetKeepsFit DEF IInv, TableFits
    <2>6. lassid_to_asset[a].type = "TOKEN_ADDRESS_ID" => s + amount <= 1
      BY <2>1, <2>2 DEF SecondUnit
    <2> HIDE DEF b, s
    <2>7. /\ Assets' = Assets
          /\ \A c \in Assets :
               /\ lassid_to_asset'[c].type = lassid_to_asset[c].type
               /\ lassid_to_asset'[c].supply =
                    IF c = a THEN s + amount ELSE lassid_to_asset[c].supply
      BY <2>1, <2>3, <2>4, SupplySet
    <2>8. Moved(a, u, b + amount, s + amount)
      BY <2>1, <2>3, <2>4, <2>5, <2>7 DEF Moved, UnchangedButSupplyAndTable
    <2>9. Deposited(a, u, amount)
      BY <2>6, <2>8 DEF Deposited, b, s
    <2>10. QED
      BY <2>9 DEF Effect
  <1>3. QED
    BY <1>1, <1>2 DEF Deposit, Return

LEMMA WithdrawEffect ==
  ASSUME IInv, NEW a \in AssetIds, NEW u \in AccountIds, NEW amount \in Amounts,
         Withdraw(a, u, amount)
  PROVE  Effect
  <1>1. CASE UNCHANGED ledger
    BY <1>1 DEF Effect
  <1>2. CASE WithdrawError(a, u, amount) = "SUCCESS"
    <2> DEFINE b == Balance(a, u)
               s == Supply(a)
    <2>1. /\ a \in Assets /\ u \in Accounts
          /\ ~(amount > s) /\ ~(amount > b)
          /\ ~NoRoom(table, a, u)
      BY <1>2 DEF WithdrawError
    <2>2. /\ MaxAmount \in Nat /\ Amounts = 0..MaxAmount
          /\ s \in Amounts /\ b \in Amounts
      BY <2>1, AmountFacts
    <2>3. s - amount \in Amounts /\ b - amount \in Amounts /\ amount <= b
      BY <2>1, <2>2
    <2>4. /\ table' = SetAccountAssetBalance(table, a, u, b - amount)
          /\ SetAssetSupply(a, s - amount)
          /\ UnchangedButSupplyAndTable
      BY <1>2 DEF Withdraw
    <2>5. Assigned(table, table', <<a, u>>, b - amount)
      BY <2>1, <2>3, <2>4, SetKeepsFit DEF IInv, TableFits
    <2> HIDE DEF b, s
    <2>6. /\ Assets' = Assets
          /\ \A c \in Assets :
               /\ lassid_to_asset'[c].type = lassid_to_asset[c].type
               /\ lassid_to_asset'[c].supply =
                    IF c = a THEN s - amount ELSE lassid_to_asset[c].supply
      BY <2>1, <2>3, <2>4, SupplySet
    <2>7. Moved(a, u, b - amount, s - amount)
      BY <2>1, <2>3, <2>4, <2>5, <2>6 DEF Moved, UnchangedButSupplyAndTable
    <2>8. Withdrawn(a, u, amount)
      BY <2>3, <2>7 DEF Withdrawn, b, s
    <2>9. QED
      BY <2>8 DEF Effect
  <1>3. QED
    BY <1>1, <1>2 DEF Withdraw, Return

LEMMA TransferEffect ==
  ASSUME IInv, NEW a \in AssetIds, NEW from \in AccountIds, NEW to \in AccountIds,
         NEW amount \in Amounts, Transfer(a, from, to, amount)
  PROVE  Effect
  <1>1. CASE UNCHANGED ledger
    BY <1>1 DEF Effect
  <1>2. CASE TransferError(a, from, to, amount) = "SUCCESS"
    <2> DEFINE debited == Debited(a, from, amount)
               more    == Balance(a, to) + amount
    <2>1. /\ a \in Assets /\ from \in Accounts /\ to \in Accounts /\ from # to
          /\ amount <= Balance(a, from)
          /\ Balance(a, from) - amount \in Amounts
          /\ more \in Amounts
          /\ Fits(debited, lassid_to_asset, laccid_to_account, next_asset_id)
          /\ Assigned(table, debited, <<a, from>>, Balance(a, from) - amount)
      BY <1>2, TransferDebits
    <2>2. UNCHANGED <<assetVars, accountVars>>
      BY <1>2 DEF Transfer
    <2>3. Sent(debited, a, from, to, amount)
      BY <2>1, <2>2 DEF Sent, Fits
    <2>4. CASE /\ NoRoom(debited, a, to) /\ table' = debited
               /\ result' = "MAX_BALANCES_REACHED"
      <3>1. Stopped(debited, a, from, to, amount)
        BY <2>3, <2>4 DEF Stopped
      <3>2. QED
        BY <3>1 DEF Effect
    <2>5. CASE /\ ~NoRoom(debited, a, to)
               /\ table' = SetAccountAssetBalance(debited, a, to, more)
      <3> HIDE DEF debited, more
      <3>1. Assigned(debited, table', <<a, to>>, more)
        BY <2>1, <2>5, SetKeepsFit DEF IInv
      <3>2. Transferred(debited, a, from, to, amount)
        BY <2>1, <2>3, <3>1 DEF Transferred, more
      <3>3. QED
        BY <3>2 DEF Effect
    <2>6. QED
      BY <1>2, <2>4, <2>5 DEF Transfer
  <1>3. QED
    BY <1>1, <1>2 DEF Transfer, Return

LEMMA NextEffect ==
  ASSUME IInv, [Next]_vars
  PROVE  Effect
  <1>1. CASE AssetCall
    BY <1>1, AssetCallEffect
  <1>2. CASE AccountCall
    BY <1>2, AccountCallEffect
  <1>3. CASE BalanceCall
    BY <1>3, DepositEffect, WithdrawEffect, TransferEffect DEF BalanceCall
  <1>4. CASE Reset
    <2>1. table' = EmptyTable
      BY <1>4, ClearTableEmpties DEF Reset, IInv, TableFits, Fits
    <2>2. Assets' = {} /\ Accounts' = {}
      BY <1>4 DEF Reset, Assets, Accounts
    <2>3. QED
      BY <2>1, <2>2 DEF Emptied, Effect
  <1>5. CASE UNCHANGED vars
    BY <1>5 DEF vars, Effect
  <1>6. QED
    BY <1>1, <1>2, <1>3, <1>4, <1>5 DEF Next

-----------------------------------------------------------------------------
(* What the accounts hold of an asset, and its supply. *)

Row(s, a) == [u \in AccountIds |-> BalanceOf(s, <<a, u>>)]

RowSum(s, a) == SumFunctionOnSet(Row(s, a), AccountIds)

LEMMA RowFacts ==
  ASSUME NEW s, WellFormed(s), NEW a \in AssetIds
  PROVE  /\ IsFiniteSet(AccountIds)
         /\ \A u \in AccountIds : Row(s, a)[u] = BalanceOf(s, <<a, u>>)
         /\ \A u \in AccountIds : Row(s, a)[u] \in Nat
         /\ RowSum(s, a) \in Nat
         /\ \A u \in AccountIds : BalanceOf(s, <<a, u>>) <= RowSum(s, a)
  <1>1. IsFiniteSet(AccountIds)
    BY TypesAssumption, FS_Interval DEF AccountIds
  <1>2. \A u \in AccountIds : Row(s, a)[u] = BalanceOf(s, <<a, u>>)
    BY DEF Row
  <1>3. \A u \in AccountIds : Row(s, a)[u] \in Nat
    <2>1. \A u \in AccountIds : BalanceOf(s, <<a, u>>) \in Amounts
      BY BalanceType
    <2>2. Amounts \subseteq Nat
      BY TypesAssumption DEF Amounts
    <2>3. QED
      BY <1>2, <2>1, <2>2
  <1>4. RowSum(s, a) \in Nat
    BY <1>1, <1>3, SumNat DEF RowSum
  <1>5. \A u \in AccountIds : Row(s, a)[u] <= RowSum(s, a)
    BY <1>1, <1>3, SumBounds DEF RowSum
  <1>6. QED
    BY <1>1, <1>2, <1>3, <1>4, <1>5

LEMMA HeldIsRow == \A a : Held(a) = RowSum(table, a)
  BY DEF Held, RowSum, Row, Balance, SumFunction

\* An assignment changes the sum of its row by what it changes the balance.
LEMMA RowAssigned ==
  ASSUME NEW s, NEW t, WellFormed(s), NEW a \in AssetIds, NEW u \in AccountIds,
         NEW amount \in Amounts, Assigned(s, t, <<a, u>>, amount)
  PROVE  /\ RowSum(t, a) = RowSum(s, a) - BalanceOf(s, <<a, u>>) + amount
         /\ \A b \in AssetIds : b # a => RowSum(t, b) = RowSum(s, b)
  <1>1. /\ \A w \in AccountIds : BalanceOf(s, <<a, w>>) \in Nat
        /\ \A w \in AccountIds :
             BalanceOf(t, <<a, w>>) = IF w = u THEN amount
                                               ELSE BalanceOf(s, <<a, w>>)
        /\ \A b \in AssetIds : b # a =>
             \A w \in AccountIds : BalanceOf(t, <<b, w>>) = BalanceOf(s, <<b, w>>)
    BY AssignedRow
  <1>2. IsFiniteSet(AccountIds) /\ amount \in Int
    BY RowFacts, TypesAssumption DEF Amounts
  <1>3. RowSum(t, a) = RowSum(s, a) - BalanceOf(s, <<a, u>>) + amount
    <2>1. /\ \A w \in AccountIds : Row(s, a)[w] \in Int /\ Row(t, a)[w] \in Int
          /\ \A w \in AccountIds \ {u} : Row(s, a)[w] = Row(t, a)[w]
          /\ Row(s, a)[u] = BalanceOf(s, <<a, u>>) /\ Row(t, a)[u] = amount
      BY <1>1, <1>2 DEF Row
    <2>2. QED
      BY <1>2, <2>1, SumChange DEF RowSum
  <1>4. ASSUME NEW b \in AssetIds, b # a
        PROVE  RowSum(t, b) = RowSum(s, b)
    <2>1. Row(t, b) = Row(s, b)
      BY <1>1, <1>4 DEF Row
    <2>2. QED
      BY <2>1 DEF RowSum
  <1>5. QED
    BY <1>3, <1>4

LEMMA EmptyRow ==
  ASSUME NEW s, NEW a \in AssetIds,
         \A u \in AccountIds : <<a, u>> \notin Entries(s)
  PROVE  RowSum(s, a) = 0
  <1>1. \A u \in AccountIds : Row(s, a)[u] = 0
    BY DEF Row, BalanceOf
  <1>2. IsFiniteSet(AccountIds)
    BY TypesAssumption, FS_Interval DEF AccountIds
  <1>3. QED
    BY <1>1, <1>2, SumZero DEF RowSum

\* What an asset may be held of: its supply while it is live.
Limit(a) == IF a \in Assets THEN Supply(a) ELSE 0

Covers == \A a \in AssetIds : RowSum(table, a) <= Limit(a)

\* With room for every pair the supply is also all there is.
Exact == \A a \in AssetIds : RowSum(table, a) = Limit(a)

LEMMA InitExact == Init => Exact
  <1>1. ASSUME Init, NEW a \in AssetIds
        PROVE  RowSum(table, a) = Limit(a)
    <2>1. RowSum(table, a) = 0
      BY <1>1, EmptyRow DEF Init, EmptyTable, Table, Entries
    <2>2. Limit(a) = 0
      BY <1>1 DEF Init, Limit, Assets
    <2>3. QED
      BY <2>1, <2>2
  <1>2. QED
    BY <1>1 DEF Exact

\* How an effect moves sums and supplies: together, except for the half of a
\* transfer that stops.
LEMMA LimitType ==
  ASSUME IInv, NEW a \in AssetIds
  PROVE  Limit(a) \in Nat /\ RowSum(table, a) \in Nat
  <1>1. Limit(a) \in Nat
    BY TypesAssumption
       DEF IInv, AssetsOK, Limit, Supply, AssetRecord, Amounts
  <1>2. RowSum(table, a) \in Nat
    BY RowFacts DEF IInv, TableFits, Fits
  <1>3. QED
    BY <1>1, <1>2

LEMMA NextLimitType ==
  ASSUME IInv', NEW a \in AssetIds
  PROVE  Limit(a)' \in Nat /\ RowSum(table', a) \in Nat
  <1>1. Limit(a)' \in Nat
    BY TypesAssumption
       DEF IInv, AssetsOK, Limit, Supply, AssetRecord, Amounts
  <1>2. RowSum(table', a) \in Nat
    BY RowFacts DEF IInv, TableFits, Fits
  <1>3. QED
    BY <1>1, <1>2

LEMMA MovedRows ==
  ASSUME IInv, NEW a \in AssetIds, NEW u \in AccountIds, NEW amount, NEW supply,
         Moved(a, u, amount, supply)
  PROVE  /\ Limit(a)' = supply /\ Limit(a) = Supply(a)
         /\ RowSum(table', a) = RowSum(table, a) - Balance(a, u) + amount
         /\ \A b \in AssetIds \ {a} :
              Limit(b)' = Limit(b) /\ RowSum(table', b) = RowSum(table, b)
  <1>1. /\ Limit(a)' = supply /\ Limit(a) = Supply(a)
        /\ \A b \in AssetIds \ {a} : Limit(b)' = Limit(b)
    BY DEF Moved, Limit, Supply
  <1>2. WellFormed(table)
    BY DEF IInv, TableFits, Fits
  <1>3. amount \in Amounts /\ Assigned(table, table', <<a, u>>, amount)
    BY DEF Moved
  <1>4. QED
    BY <1>1, <1>2, <1>3, RowAssigned DEF Balance

LEMMA TransferredRows ==
  ASSUME IInv, NEW a \in AssetIds, NEW from \in AccountIds, NEW to \in AccountIds,
         NEW amount \in Amounts, NEW s
  PROVE  /\ Sent(s, a, from, to, amount) =>
              /\ RowSum(s, a) = RowSum(table, a) - amount
              /\ \A b \in AssetIds \ {a} : RowSum(s, b) = RowSum(table, b)
         /\ Transferred(s, a, from, to, amount) =>
              \A b \in AssetIds : RowSum(table', b) = RowSum(table, b)
  <1>1. ASSUME Sent(s, a, from, to, amount)
        PROVE  /\ RowSum(s, a) = RowSum(table, a) - amount
               /\ \A b \in AssetIds \ {a} : RowSum(s, b) = RowSum(table, b)
               /\ BalanceOf(s, <<a, to>>) = Balance(a, to)
               /\ WellFormed(s)
    <2> DEFINE left == Balance(a, from) - amount
    <2>1. /\ WellFormed(table) /\ WellFormed(s)
          /\ left \in Amounts /\ Assigned(table, s, <<a, from>>, left)
          /\ a \in Assets /\ from \in Accounts /\ from # to
      BY <1>1 DEF Sent, IInv, TableFits, Fits
    <2>2. Balance(a, from) \in Nat /\ amount \in Nat /\ RowSum(table, a) \in Nat
      BY <2>1, AmountFacts, LimitType, TypesAssumption DEF Amounts
    <2> HIDE DEF left
    <2>3. /\ RowSum(s, a) = RowSum(table, a) - Balance(a, from) + left
          /\ \A b \in AssetIds \ {a} : RowSum(s, b) = RowSum(table, b)
      BY <2>1, RowAssigned DEF Balance
    <2>4. BalanceOf(s, <<a, to>>) = Balance(a, to)
      BY <2>1, AssignedRow DEF Balance
    <2>5. QED
      BY <2>1, <2>2, <2>3, <2>4 DEF left
  <1>2. ASSUME Transferred(s, a, from, to, amount)
        PROVE  \A b \in AssetIds : RowSum(table', b) = RowSum(table, b)
    <2> DEFINE more == Balance(a, to) + amount
    <2>1. /\ Sent(s, a, from, to, amount) /\ a \in Assets /\ to \in Accounts
          /\ more \in Amounts /\ Assigned(s, table', <<a, to>>, more)
      BY <1>2 DEF Transferred, Sent
    <2>2. Balance(a, to) \in Nat /\ amount \in Nat /\ RowSum(table, a) \in Nat
      BY <2>1, AmountFacts, LimitType, TypesAssumption DEF Amounts
    <2> HIDE DEF more
    <2>3. /\ RowSum(table', a) = RowSum(s, a) - BalanceOf(s, <<a, to>>) + more
          /\ \A b \in AssetIds \ {a} : RowSum(table', b) = RowSum(s, b)
      BY <1>1, <2>1, RowAssigned
    <2>4. RowSum(table', a) = RowSum(table, a)
      BY <1>1, <2>1, <2>2, <2>3 DEF more
    <2>5. QED
      BY <1>1, <2>1, <2>3, <2>4
  <1>3. QED
    BY <1>1, <1>2

\* An effect keeps what the supply has over the sum of the balances: only a
\* transfer that stops adds to it.
LEMMA EffectOnRows ==
  ASSUME IInv, Effect, NEW a \in AssetIds
  PROVE  \/ RowSum(table', a) - Limit(a)' = RowSum(table, a) - Limit(a)
         \/ a \in Assets /\ Supply(a) = 0 /\ Limit(a)' = 0
              /\ RowSum(table', a) = RowSum(table, a)
         \/ RowSum(table', a) = 0 /\ Limit(a)' = 0
         \/ /\ RowSum(table', a) <= RowSum(table, a) /\ Limit(a)' = Limit(a)
            /\ \E from, to \in AccountIds, amount \in Amounts : \E s :
                 Stopped(s, a, from, to, amount)
  <1>1. CASE UNCHANGED ledger
    BY <1>1 DEF ledger, assetVars, Limit, Assets, Supply
  <1>2. ASSUME NEW single \in BOOLEAN, AssetAdded(single)
        PROVE  RowSum(table', a) - Limit(a)' = RowSum(table, a) - Limit(a)
    BY <1>2 DEF AssetAdded, Limit, Supply
  <1>3. ASSUME NEW b \in AssetIds, AssetGone(b)
        PROVE  \/ RowSum(table', a) - Limit(a)' = RowSum(table, a) - Limit(a)
               \/ a \in Assets /\ Supply(a) = 0 /\ Limit(a)' = 0
                    /\ RowSum(table', a) = RowSum(table, a)
    BY <1>3 DEF AssetGone, Limit, Supply
  <1>4. CASE AccountAdded \/ \E u \in AccountIds : AccountGone(u)
    BY <1>4 DEF AccountAdded, AccountGone, assetVars, Limit, Assets, Supply
  <1>5. ASSUME NEW b \in AssetIds, NEW u \in AccountIds, NEW amount \in Amounts,
               Deposited(b, u, amount) \/ Withdrawn(b, u, amount)
        PROVE  RowSum(table', a) - Limit(a)' = RowSum(table, a) - Limit(a)
    <2>1. b \in Assets /\ u \in Accounts
      BY <1>5 DEF Deposited, Withdrawn, Moved
    <2> DEFINE sum  == RowSum(table, b)
               had  == Balance(b, u)
               sup  == Supply(b)
    <2>2. sum \in Nat /\ had \in Nat /\ sup \in Nat /\ amount \in Nat
      BY <2>1, LimitType, AmountFacts, TypesAssumption DEF Amounts
    <2>3. CASE a # b
      BY <1>5, <2>3, MovedRows DEF Deposited, Withdrawn
    <2>4. CASE a = b /\ Deposited(b, u, amount)
      <3>1. /\ Limit(b)' = sup + amount /\ Limit(b) = sup
            /\ RowSum(table', b) = sum - had + (had + amount)
        BY <2>4, MovedRows DEF Deposited
      <3> HIDE DEF sum, had, sup
      <3>2. RowSum(table', b) - Limit(b)' = sum - sup
        BY <2>2, <3>1
      <3>3. QED
        BY <2>4, <3>1, <3>2 DEF sum
    <2>5. CASE a = b /\ Withdrawn(b, u, amount)
      <3>1. /\ Limit(b)' = sup - amount /\ Limit(b) = sup
            /\ RowSum(table', b) = sum - had + (had - amount)
        BY <2>5, MovedRows DEF Withdrawn
      <3> HIDE DEF sum, had, sup
      <3>2. RowSum(table', b) - Limit(b)' = sum - sup
        BY <2>2, <3>1
      <3>3. QED
        BY <2>5, <3>1, <3>2 DEF sum
    <2>6. QED
      BY <1>5, <2>3, <2>4, <2>5
  <1>6. ASSUME NEW b \in AssetIds, NEW from \in AccountIds, NEW to \in AccountIds,
               NEW amount \in Amounts, NEW s
        PROVE  /\ Stopped(s, b, from, to, amount) =>
                    \/ RowSum(table', a) - Limit(a)' = RowSum(table, a) - Limit(a)
                    \/ /\ RowSum(table', a) <= RowSum(table, a)
                       /\ Limit(a)' = Limit(a)
                       /\ a = b
               /\ Transferred(s, b, from, to, amount) =>
                    RowSum(table', a) - Limit(a)' = RowSum(table, a) - Limit(a)
    <2>1. Sent(s, b, from, to, amount) => Limit(a)' = Limit(a)
      BY DEF Sent, assetVars, Limit, Assets, Supply
    <2>2. RowSum(table, b) \in Nat /\ amount \in Nat
      BY LimitType, TypesAssumption DEF Amounts
    <2>3. ASSUME Stopped(s, b, from, to, amount), a = b
          PROVE  RowSum(table', a) <= RowSum(table, a)
      BY <2>2, <2>3, TransferredRows DEF Stopped
    <2>4. ASSUME Stopped(s, b, from, to, amount), a # b
          PROVE  RowSum(table', a) = RowSum(table, a)
      BY <2>4, TransferredRows DEF Stopped
    <2>5. Transferred(s, b, from, to, amount) =>
            RowSum(table', a) = RowSum(table, a)
      BY TransferredRows
    <2>6. QED
      BY <2>1, <2>3, <2>4, <2>5 DEF Stopped, Transferred
  <1>7. CASE Emptied
    <2>1. RowSum(table', a) = 0
      BY <1>7, EmptyRow DEF Emptied, EmptyTable, Table, Entries
    <2>2. QED
      BY <1>7, <2>1 DEF Emptied, Limit
  <1>8. QED
    BY <1>1, <1>2, <1>3, <1>4, <1>5, <1>6, <1>7 DEF Effect

LEMMA CoversKept ==
  ASSUME IInv, IInv', Effect, Covers
  PROVE  Covers'
  <1> SUFFICES ASSUME NEW a \in AssetIds
               PROVE  RowSum(table', a) <= Limit(a)'
    BY DEF Covers
  <1> DEFINE n == RowSum(table, a)
             m == Limit(a)
             p == RowSum(table', a)
             q == Limit(a)'
  <1>1. n <= m /\ n \in Nat /\ m \in Nat
    BY LimitType DEF Covers
  <1>2. a \in Assets => m = Supply(a)
    BY DEF Limit
  <1>3. \/ p - q = n - m
        \/ a \in Assets /\ Supply(a) = 0 /\ q = 0 /\ p = n
        \/ p = 0 /\ q = 0
        \/ p <= n /\ q = m
    BY EffectOnRows
  <1>4. p \in Int /\ q \in Int
    BY NextLimitType
  <1> HIDE DEF n, m, p, q
  <1>5. p <= q
    BY <1>1, <1>2, <1>3, <1>4
  <1>6. QED
    BY <1>5 DEF p, q

\* The supply of an asset covers what its accounts hold, whatever failed.
THEOREM SupplyHolds == Spec => []SupplyCoversBalances
  <1>1. Init => Covers
    <2>1. ASSUME Init, NEW a \in AssetIds
          PROVE  RowSum(table, a) <= Limit(a)
      <3>1. RowSum(table, a) = Limit(a)
        BY <2>1, InitExact DEF Exact
      <3>2. IInv
        BY <2>1, InitIInv
      <3>3. QED
        BY <3>1, <3>2, LimitType
    <2>2. QED
      BY <2>1 DEF Covers
  <1>2. IInv /\ Covers /\ [Next]_vars => Covers'
    BY NextEffect, NextIInv, CoversKept
  <1>3. IInv /\ Covers => SupplyCoversBalances
    BY HeldIsRow DEF Covers, Limit, SupplyCoversBalances, IInv, TableFits, Fits,
                     Accounts
  <1>4. QED
    BY <1>1, <1>2, <1>3, Invariance, PTL DEF Spec

-----------------------------------------------------------------------------
(* With room for every pair.                                               *)

\* A map with room for every pair is never full for a new pair.
RoomForAll == MaxAssets * MaxAccounts <= MaxBalances

LEMMA AlwaysRoom ==
  ASSUME RoomForAll, NEW s, WellFormed(s), NEW a \in AssetIds, NEW u \in AccountIds
  PROVE  ~NoRoom(s, a, u)
  <1> SUFFICES ASSUME <<a, u>> \notin Entries(s)
               PROVE  ~Full(s)
    BY DEF NoRoom
  <1>1. /\ IsFiniteSet(AssetIds) /\ Cardinality(AssetIds) = MaxAssets
        /\ IsFiniteSet(AccountIds) /\ Cardinality(AccountIds) = MaxAccounts
    <2>1. MaxAssets \in Nat /\ MaxAccounts \in Nat
      BY TypesAssumption
    <2>2. ASSUME NEW n \in Nat
          PROVE  IsFiniteSet(0..(n - 1)) /\ Cardinality(0..(n - 1)) = n
      BY FS_Interval
    <2>3. QED
      BY <2>1, <2>2 DEF AssetIds, AccountIds
  <1>2. IsFiniteSet(Key) /\ Cardinality(Key) = MaxAssets * MaxAccounts
    BY <1>1, FS_Product DEF Key
  <1>3. <<a, u>> \in Key /\ Entries(s) \subseteq Key \ {<<a, u>>}
    BY DEF Key, WellFormed, TableType
  <1>4. Cardinality(Entries(s)) <= MaxAssets * MaxAccounts - 1
    <2>1. /\ IsFiniteSet(Key \ {<<a, u>>})
          /\ Cardinality(Key \ {<<a, u>>}) = MaxAssets * MaxAccounts - 1
      BY <1>2, <1>3, FS_RemoveElement
    <2>2. QED
      BY <1>3, <2>1, FS_Subset
  <1>5. /\ Cardinality(Entries(s)) \in Nat
        /\ MaxAssets * MaxAccounts \in Nat
        /\ MaxBalances \in Nat
    <2>1. IsFiniteSet(Entries(s))
      BY DEF WellFormed, WithinLimit
    <2>2. MaxAssets * MaxAccounts \in Nat
      BY <1>2, FS_CardinalityType
    <2>3. QED
      BY <2>1, <2>2, FS_CardinalityType, TableAssumption
  <1> DEFINE pairs == MaxAssets * MaxAccounts
             size  == Cardinality(Entries(s))
  <1>6. size <= pairs - 1 /\ pairs <= MaxBalances
        /\ size \in Nat /\ pairs \in Nat /\ MaxBalances \in Nat
    BY <1>4, <1>5 DEF RoomForAll
  <1> HIDE DEF pairs, size
  <1>7. ~(size >= MaxBalances)
    BY <1>6
  <1>8. QED
    BY <1>7 DEF Full, size

LEMMA NoneStopped ==
  ASSUME RoomForAll, IInv, NEW a, NEW from, NEW to \in AccountIds, NEW amount, NEW s,
         Stopped(s, a, from, to, amount)
  PROVE  FALSE
  <1>1. WellFormed(s) /\ a \in AssetIds /\ NoRoom(s, a, to)
    BY DEF Stopped, Sent, IInv, AssetsOK
  <1>2. QED
    BY <1>1, AlwaysRoom

\* No transfer stops where there is room, nor does a call that succeeds stop.
LEMMA ExactKept ==
  ASSUME RoomForAll \/ result' # "MAX_BALANCES_REACHED", IInv, IInv', Effect, Exact
  PROVE  Exact'
  <1> SUFFICES ASSUME NEW a \in AssetIds
               PROVE  RowSum(table', a) = Limit(a)'
    BY DEF Exact
  <1> DEFINE n == RowSum(table, a)
             m == Limit(a)
             p == RowSum(table', a)
             q == Limit(a)'
  <1>1. n = m /\ n \in Nat
    BY LimitType DEF Exact
  <1>2. a \in Assets => m = Supply(a)
    BY DEF Limit
  <1>3. \/ p - q = n - m
        \/ a \in Assets /\ Supply(a) = 0 /\ q = 0 /\ p = n
        \/ p = 0 /\ q = 0
    BY EffectOnRows, NoneStopped DEF Stopped
  <1>4. p \in Int /\ q \in Int
    BY NextLimitType
  <1> HIDE DEF n, m, p, q
  <1>5. p = q
    BY <1>1, <1>2, <1>3, <1>4
  <1>6. QED
    BY <1>5 DEF p, q

\* The supply of a live asset is exactly what the accounts hold of it.
THEOREM ConservationHolds ==
  ASSUME RoomForAll
  PROVE  Spec => []Conservation
  <1>1. IInv /\ Exact /\ [Next]_vars => Exact'
    BY NextEffect, NextIInv, ExactKept
  <1>2. IInv /\ Exact => Conservation
    BY HeldIsRow DEF Exact, Limit, Conservation, IInv, AssetsOK
  <1>3. QED
    BY InitExact, <1>1, <1>2, Invariance, PTL DEF Spec

\* The abstract state.
Single == [a \in Assets |-> lassid_to_asset[a].type = "TOKEN_ADDRESS_ID"]

Balances(s) == [k \in Key |-> BalanceOf(s, k)]

Bal == Balances(table)

LEMMA TotalIsRow ==
  ASSUME NEW a \in AssetIds
  PROVE  Abstract!Total(a) = RowSum(table, a)
  <1>1. [u \in AccountIds |-> Bal[<<a, u>>]] = Row(table, a)
    BY DEF Bal, Balances, Row, Key
  <1>2. Abstract!Total(a) =
          Abstract!SumFunction([u \in AccountIds |-> Bal[<<a, u>>]])
    BY DEF Abstract!Total, Bal, Balances
  <1>3. DOMAIN Row(table, a) = AccountIds
    BY DEF Row
  <1>4. \A f : Abstract!SumFunction(f) = SumFunctionOnSet(f, DOMAIN f)
    BY DEF Abstract!SumFunction, Abstract!SumFunctionOnSet,
           Abstract!FoldFunctionOnSet, Abstract!MapThenFoldSet,
           SumFunctionOnSet, FoldFunctionOnSet, MapThenFoldSet
  <1>5. QED
    BY <1>1, <1>2, <1>3, <1>4 DEF RowSum

\* The balances after an assignment.
LEMMA AssignedBal ==
  ASSUME NEW s, NEW t, NEW a \in AssetIds, NEW u \in AccountIds, NEW amount,
         Assigned(s, t, <<a, u>>, amount)
  PROVE  Balances(t) = [Balances(s) EXCEPT ![<<a, u>>] = amount]
  BY DEF Assigned, Balances, Key

LEMMA EffectRefines ==
  ASSUME RoomForAll, IInv, Exact, Effect
  PROVE  Abstract!Next \/ UNCHANGED Abstract!vars
  <1> DEFINE step == Abstract!Next \/ UNCHANGED Abstract!vars
  <1>0. /\ Assets \subseteq AssetIds /\ Accounts \subseteq AccountIds
        /\ WellFormed(table)
        /\ MaxAmount \in Nat /\ Amounts = 0..MaxAmount
    BY TypesAssumption DEF IInv, AssetsOK, AccountsOK, TableFits, Fits, Amounts
  <1>1. CASE UNCHANGED ledger
    BY <1>1 DEF ledger, assetVars, accountVars, Assets, Accounts, Abstract!vars
  <1>2. ASSUME NEW single \in BOOLEAN, AssetAdded(single)
        PROVE  step
    <2> DEFINE id == next_asset_id
    <2>1. /\ id \in AssetIds /\ id \notin DOMAIN Single
          /\ Single' = [b \in DOMAIN Single \cup {id} |->
                          IF b = id THEN single ELSE Single[b]]
          /\ Accounts' = Accounts /\ Bal' = Bal
      BY <1>2 DEF AssetAdded, Single, accountVars, Accounts, Bal, Balances
    <2>2. Abstract!CreateAsset(id, single)
      BY <2>1 DEF Abstract!CreateAsset, Abstract!assets, Single, Bal, Balances
    <2>3. QED
      BY <2>1, <2>2 DEF Abstract!Next
  <1>3. ASSUME NEW a \in AssetIds, AssetGone(a)
        PROVE  step
    <2>1. /\ a \in DOMAIN Single
          /\ Single' = [b \in DOMAIN Single \ {a} |-> Single[b]]
          /\ Accounts' = Accounts /\ Bal' = Bal
      BY <1>3 DEF AssetGone, Single, accountVars, Accounts, Bal, Balances
    <2>2. Abstract!Total(a) = 0
      BY <1>3, TotalIsRow DEF AssetGone, Exact, Limit
    <2>3. Abstract!RemoveAsset(a)
      BY <2>1, <2>2 DEF Abstract!RemoveAsset, Abstract!assets, Single, Bal, Balances
    <2>4. QED
      BY <2>3 DEF Abstract!Next
  <1>4. CASE AccountAdded
    <2>1. Single' = Single /\ Bal' = Bal
      BY <1>4 DEF AccountAdded, Single, assetVars, Assets, Bal, Balances
    <2>2. Abstract!CreateAccount(next_account_id)
      BY <1>4, <2>1 DEF AccountAdded, Abstract!CreateAccount, Single, Bal, Balances
    <2>3. QED
      BY <1>4, <2>2 DEF AccountAdded, Abstract!Next
  <1>5. ASSUME NEW u \in AccountIds, AccountGone(u)
        PROVE  step
    <2>1. Single' = Single /\ Bal' = Bal
      BY <1>5 DEF AccountGone, Single, assetVars, Assets, Bal, Balances
    <2>2. \A a \in AssetIds : Bal[<<a, u>>] = 0
      BY <1>5 DEF AccountGone, Bal, Balances, BalanceOf, Key
    <2>3. Abstract!RemoveAccount(u)
      BY <1>5, <2>1, <2>2 DEF AccountGone, Abstract!RemoveAccount, Single, Bal, Balances
    <2>4. QED
      BY <2>3 DEF Abstract!Next
  <1>6. ASSUME NEW a \in AssetIds, NEW u \in AccountIds, NEW amount \in Amounts,
               Deposited(a, u, amount)
        PROVE  step
    <2> DEFINE more == Balance(a, u) + amount
    <2>1. /\ a \in Assets /\ u \in Accounts
          /\ Single' = Single /\ Accounts' = Accounts
          /\ Supply(a) + amount \in Amounts
          /\ Assigned(table, table', <<a, u>>, more)
      BY <1>6 DEF Deposited, Moved, Single, accountVars, Accounts
    <2> HIDE DEF more
    <2>2. Bal' = [Bal EXCEPT ![<<a, u>>] = more]
      BY <2>1, AssignedBal DEF Bal
    <2>3. Bal[<<a, u>>] = Balance(a, u)
      BY DEF Bal, Balances, Balance, Key
    <2>4. Bal' = [Bal EXCEPT ![<<a, u>>] = @ + amount]
      BY <2>2, <2>3 DEF more
    <2>5. Abstract!Total(a) = Supply(a)
      BY <2>1, TotalIsRow DEF Exact, Limit
    <2>6. Abstract!Total(a) + amount <= (IF Single[a] THEN 1 ELSE MaxAmount)
      <3>1. Supply(a) + amount <= MaxAmount
        BY <1>0, <2>1
      <3>2. lassid_to_asset[a].type = "TOKEN_ADDRESS_ID" => Supply(a) + amount <= 1
        BY <1>6 DEF Deposited
      <3>3. Single[a] <=> lassid_to_asset[a].type = "TOKEN_ADDRESS_ID"
        BY <2>1 DEF Single
      <3>4. QED
        BY <2>5, <3>1, <3>2, <3>3
    <2>7. Abstract!Deposit(a, u, amount)
      BY <2>1, <2>4, <2>6 DEF Abstract!Deposit, Abstract!assets, Single, Bal, Balances
    <2>8. QED
      BY <1>0, <2>7 DEF Abstract!Next
  <1>7. ASSUME NEW a \in AssetIds, NEW u \in AccountIds, NEW amount \in Amounts,
               Withdrawn(a, u, amount)
        PROVE  step
    <2> DEFINE left == Balance(a, u) - amount
    <2>1. /\ a \in Assets /\ u \in Accounts /\ amount <= Balance(a, u)
          /\ Single' = Single /\ Accounts' = Accounts
          /\ Assigned(table, table', <<a, u>>, left)
      BY <1>7 DEF Withdrawn, Moved, Single, accountVars, Accounts
    <2> HIDE DEF left
    <2>2. Bal' = [Bal EXCEPT ![<<a, u>>] = left]
      BY <2>1, AssignedBal DEF Bal
    <2>3. Bal[<<a, u>>] = Balance(a, u)
      BY DEF Bal, Balances, Balance, Key
    <2>4. Bal' = [Bal EXCEPT ![<<a, u>>] = @ - amount]
      BY <2>2, <2>3 DEF left
    <2>5. Abstract!Withdraw(a, u, amount)
      BY <2>1, <2>3, <2>4 DEF Abstract!Withdraw, Abstract!assets, Single, Bal, Balances
    <2>6. QED
      BY <1>0, <2>5 DEF Abstract!Next
  <1>8. ASSUME NEW a \in AssetIds, NEW from \in AccountIds, NEW amount \in Amounts,
               NEW to \in AccountIds, NEW s,
               Transferred(s, a, from, to, amount)
        PROVE  step
    <2> DEFINE left == Balance(a, from) - amount
               more == Balance(a, to) + amount
               half == Balances(s)
    <2>1. /\ a \in Assets /\ {from, to} \subseteq Accounts /\ from # to
          /\ amount <= Balance(a, from)
          /\ Single' = Single /\ Accounts' = Accounts
          /\ Assigned(table, s, <<a, from>>, left)
          /\ Assigned(s, table', <<a, to>>, more)
      BY <1>8 DEF Transferred, Sent, Single, assetVars, accountVars, Assets,
                  Accounts
    <2> HIDE DEF left, more
    <2>2. half = [Bal EXCEPT ![<<a, from>>] = left]
      BY <2>1, AssignedBal DEF Bal
    <2>3. Bal' = [half EXCEPT ![<<a, to>>] = more]
      BY <2>1, AssignedBal DEF Bal
    <2>4. /\ Bal[<<a, from>>] = Balance(a, from) /\ Bal[<<a, to>>] = Balance(a, to)
          /\ DOMAIN Bal = Key /\ <<a, from>> \in Key /\ <<a, to>> \in Key
          /\ <<a, from>> # <<a, to>>
      BY <2>1 DEF Bal, Balances, Balance, Key
    <2> HIDE DEF half
    <2>5. Bal' = [Bal EXCEPT ![<<a, from>>] = @ - amount,
                             ![<<a, to>>] = @ + amount]
      BY <2>2, <2>3, <2>4 DEF left, more
    <2>6. Abstract!Transfer(a, from, to, amount)
      BY <2>1, <2>4, <2>5 DEF Abstract!Transfer, Abstract!assets, Single, Bal, Balances
    <2>7. QED
      BY <1>0, <2>6 DEF Abstract!Next
  <1>9. CASE Emptied
    <2>1. Single' = <<>> /\ Accounts' = {} /\ Bal' = [k \in DOMAIN Bal |-> 0]
      BY <1>9 DEF Emptied, Single, Bal, Balances, BalanceOf, EmptyTable, Table, Entries
    <2>2. Abstract!Reset
      BY <2>1 DEF Abstract!Reset, Single, Bal, Balances
    <2>3. QED
      BY <2>2 DEF Abstract!Next
  <1>10. QED
    BY <1>1, <1>2, <1>3, <1>4, <1>5, <1>6, <1>7, <1>8, <1>9, NoneStopped
       DEF Effect

\* With room for every pair the ledger is the abstract one.
THEOREM Refinement ==
  ASSUME RoomForAll
  PROVE  Spec => RefinesLedger
  <1>1. Init => Abstract!Init
    BY DEF Init, Abstract!Init, Assets, Accounts, BalanceOf, EmptyTable, Table,
           Entries, Key
  <1>2. IInv /\ Exact /\ [Next]_vars => [Abstract!Next]_(Abstract!vars)
    BY NextEffect, EffectRefines
  <1>3. IInv /\ Exact /\ [Next]_vars => Exact'
    BY NextEffect, NextIInv, ExactKept
  <1>4. QED
    BY InitExact, <1>1, <1>2, <1>3, Invariance, PTL
       DEF Spec, RefinesLedger, Abstract!Spec

=============================================================================
