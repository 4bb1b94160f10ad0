------------------------- MODULE LedgerClientProofs -------------------------
(***************************************************************************)
(* The two programs over the file/buffer ledger, for every number of       *)
(* assets, accounts, balances and items of a request:                      *)
(*  - the wallet application (WalletApp) conserves every token between     *)
(*    requests, however small its map of balances is;                      *)
(*  - the drive reader (DriveReader) shows just the records in use, and    *)
(*    the right ones.                                                      *)
(***************************************************************************)
EXTENDS WalletApp, DriveReader, LedgerMemoryProofs

-----------------------------------------------------------------------------
(***************************************************************************)
(* The wallet.  The machine goes back to the ledger it had before a        *)
(* request that failed, so the invariant is about that one too.            *)
(***************************************************************************)

\* AssetsOK and AccountsOK of a ledger that is not the present one.
AssetsFit(assets, keys, next_id, base, defined) ==
  /\ DOMAIN assets \subseteq AssetIds
  /\ assets \in [DOMAIN assets -> AssetRecord]
  /\ keys \in [DOMAIN keys -> AssetIds]
  /\ next_id \in 0..MaxAssets
  /\ base \in Nat /\ defined \in BOOLEAN
  /\ \A key \in DOMAIN keys :
       /\ keys[key] \in DOMAIN assets
       /\ HasToken(assets[keys[key]].type) /\ KeyOf(assets[keys[key]]) = key
  /\ \A a \in DOMAIN assets :
       /\ HasToken(assets[a].type) =>
            KeyOf(assets[a]) \in DOMAIN keys /\ keys[KeyOf(assets[a])] = a
       /\ assets[a].type = "BASE" => defined /\ a = base
       /\ a < next_id /\ FieldsFit(assets[a])

AccountsFit(accounts, keys, next_id) ==
  /\ DOMAIN accounts \subseteq AccountIds
  /\ accounts \in [DOMAIN accounts -> AccountRecord]
  /\ keys \in [DOMAIN keys -> AccountIds]
  /\ next_id \in 0..MaxAccounts
  /\ \A bytes \in DOMAIN keys :
       /\ keys[bytes] \in DOMAIN accounts
       /\ HasAccountKey(accounts[keys[bytes]].type)
       /\ accounts[keys[bytes]].account_id = bytes
  /\ \A u \in DOMAIN accounts :
       /\ HasAccountKey(accounts[u].type) =>
            /\ accounts[u].account_id \in DOMAIN keys
            /\ keys[accounts[u].account_id] = u
       /\ u < next_id
       /\ accounts[u].type = "WALLET_ADDRESS" => accounts[u].account_id \in Wallets

\* A ledger that satisfies IInv, and whose supplies are what is held.
Sound(l) ==
  /\ AssetsFit(l.lassid_to_asset, l.asset_to_lassid, l.next_asset_id,
               l.base_asset_id, l.base_asset_id_defined)
  /\ AccountsFit(l.laccid_to_account, l.account_to_laccid, l.next_account_id)
  /\ Fits(l.table, l.lassid_to_asset, l.laccid_to_account, l.next_asset_id)
  /\ \A a \in DOMAIN l.lassid_to_asset :
       l.lassid_to_asset[a].type = "TOKEN_ADDRESS_ID" =>
         SingleIn(l.table, a, l.lassid_to_asset[a].supply)
  /\ \A a \in AssetIds :
       RowSum(l.table, a) =
         IF a \in DOMAIN l.lassid_to_asset THEN l.lassid_to_asset[a].supply ELSE 0

LEMMA AssetsOKFit ==
  AssetsOK <=> AssetsFit(lassid_to_asset, asset_to_lassid, next_asset_id,
                         base_asset_id, base_asset_id_defined)
  BY DEF AssetsOK, AssetsFit, AssetKeysMatch, BaseIsUnique, Assets, KeyOfAsset, KeyOf

LEMMA AccountsOKFit ==
  AccountsOK <=> AccountsFit(laccid_to_account, account_to_laccid, next_account_id)
  BY DEF AccountsOK, AccountsFit, AccountKeysMatch, Accounts

LEMMA SnapshotSound == IInv /\ Exact <=> Sound(Snapshot) /\ ResultOK
  <1>1. /\ Snapshot.lassid_to_asset = lassid_to_asset
        /\ Snapshot.asset_to_lassid = asset_to_lassid
        /\ Snapshot.next_asset_id = next_asset_id
        /\ Snapshot.base_asset_id = base_asset_id
        /\ Snapshot.base_asset_id_defined = base_asset_id_defined
        /\ Snapshot.laccid_to_account = laccid_to_account
        /\ Snapshot.account_to_laccid = account_to_laccid
        /\ Snapshot.next_account_id = next_account_id
        /\ Snapshot.table = table
    BY DEF Snapshot
  <1>2. Exact <=> \A a \in AssetIds :
          RowSum(table, a) = IF a \in DOMAIN lassid_to_asset
                             THEN lassid_to_asset[a].supply ELSE 0
    BY DEF Exact, Limit, Assets, Supply
  <1>3. OneHand <=> \A a \in DOMAIN lassid_to_asset :
          lassid_to_asset[a].type = "TOKEN_ADDRESS_ID" =>
            SingleIn(table, a, lassid_to_asset[a].supply)
    BY DEF OneHand, Assets, Supply
  <1>4. QED
    BY <1>1, <1>2, <1>3, AssetsOKFit, AccountsOKFit DEF Sound, IInv, TableFits

\* Going back to a ledger whose supplies are what is held.
LEMMA RevertHolds ==
  ASSUME Sound(saved), Revert, result' = "SUCCESS"
  PROVE  IInv' /\ Exact'
  <1> DEFINE l == Snapshot'
  <1>1. /\ l.lassid_to_asset = saved.lassid_to_asset
        /\ l.asset_to_lassid = saved.asset_to_lassid
        /\ l.next_asset_id = saved.next_asset_id
        /\ l.base_asset_id = saved.base_asset_id
        /\ l.base_asset_id_defined = saved.base_asset_id_defined
        /\ l.laccid_to_account = saved.laccid_to_account
        /\ l.account_to_laccid = saved.account_to_laccid
        /\ l.next_account_id = saved.next_account_id
        /\ l.table = saved.table
    BY DEF Snapshot, Revert
  <1> HIDE DEF l
  <1>2. Sound(l)
    BY <1>1 DEF Sound
  <1>3. ResultOK'
    BY DEF ResultOK
  <1>4. (IInv /\ Exact <=> Sound(Snapshot) /\ ResultOK)'
    BY SnapshotSound, PTL
  <1>5. QED
    BY <1>2, <1>3, <1>4 DEF l

-----------------------------------------------------------------------------
(* The calls a handler has still to make. *)

CallNames == {"account", "receiver", "asset", "deposit", "withdraw", "transfer",
              "drop_account", "drop_asset", "voucher", "unknown"}

Things == [token: Tokens \cup {Zero}, token_id: TokenIds \cup {Zero}, amount: Nat]

CallsOf(r) ==
  {c \in [name: CallNames, item: Things] :
     /\ c.name = "asset" => r.kind # "ETHER"
     /\ c.name = "receiver" => r.receiver \in Bytes32}

IsRequest(r) == \E kind \in Kinds : r \in RequestsOf(kind)

IsItems(items) ==
  Len(items) \in Nat /\ \A i \in 1..Len(items) : items[i] \in Things

LEMMA ItemIsThing ==
  ASSUME NEW kind, NEW item \in Items(kind)
  PROVE  item \in Things
  BY TypesAssumption DEF Items, Things, Amounts

LEMMA ListIsItems ==
  ASSUME NEW kind, NEW items \in ItemLists(kind)
  PROVE  IsItems(items)
  <1>1. CASE kind = "ERC1155_BATCH"
    <2>1. PICK n \in 0..MaxBatch : items \in [1..n -> Items(kind)]
      BY <1>1 DEF ItemLists
    <2>2. n \in Nat /\ Len(items) = n
      BY <2>1, WalletAssumption
    <2>3. \A i \in 1..n : items[i] \in Things
      BY <2>1, ItemIsThing
    <2>4. QED
      BY <2>2, <2>3 DEF IsItems
  <1>2. CASE kind # "ERC1155_BATCH"
    <2>1. PICK item \in Items(kind) : items = <<item>>
      BY <1>2 DEF ItemLists
    <2>2. Len(items) = 1 /\ items[1] = item /\ \A i \in 1..1 : i = 1
      BY <2>1
    <2>3. QED
      BY <2>2, ItemIsThing DEF IsItems
  <1>3. QED
    BY <1>1, <1>2

LEMMA EachIsSeq ==
  ASSUME NEW S, NEW items, IsItems(items), NEW names, Len(names) \in {1, 2, 3},
         \A j \in 1..Len(names), thing \in Things :
           [name |-> names[j], item |-> thing] \in S
  PROVE  Each(items, names) \in Seq(S)
  <1> DEFINE n == Len(names)
             m == Len(items)
             value(i) == [name |-> names[((i - 1) % n) + 1],
                          item |-> items[((i - 1) \div n) + 1]]
  <1>1. m \in Nat /\ n \in {1, 2, 3}
    BY DEF IsItems
  <1> HIDE DEF m, n
  <1>2. m * n \in Nat
    BY <1>1
  <1>3. ASSUME NEW i \in 1..(m * n)
        PROVE  ((i - 1) % n) + 1 \in 1..n /\ ((i - 1) \div n) + 1 \in 1..m
    <2>1. CASE n = 1
      BY <1>1, <2>1
    <2>2. CASE n = 2
      BY <1>1, <2>2
    <2>3. CASE n = 3
      BY <1>1, <2>3
    <2>4. QED
      BY <1>1, <2>1, <2>2, <2>3
  <1>4. \A i \in 1..(m * n) : value(i) \in S
    BY <1>3 DEF IsItems, m, n
  <1>5. Each(items, names) = [i \in 1..(m * n) |-> value(i)]
    BY DEF Each, m, n
  <1> HIDE DEF value
  <1>6. QED
    BY <1>2, <1>4, <1>5, IsASeq

LEMMA CallsAreCalls ==
  ASSUME NEW r, IsRequest(r)
  PROVE  Calls(r) \in Seq(CallsOf(r))
  <1> DEFINE S == CallsOf(r)
  <1> SUFFICES Calls(r) \in Seq(S)
    OBVIOUS
  <1>1. /\ r.op = "other" \/ IsItems(r.items)
        /\ r.op = "transfer" => r.receiver \in Bytes32
    BY ListIsItems DEF IsRequest, RequestsOf
  <1>2. NoItem \in Things
    BY DEF NoItem, Things
  <1>3. ASSUME NEW name \in CallNames \ {"asset", "receiver"}
        PROVE  /\ Call(name) \in Seq(S)
               /\ \A thing \in Things : [name |-> name, item |-> thing] \in S
    <2>1. \A thing \in Things : [name |-> name, item |-> thing] \in S
      BY DEF CallsOf
    <2> HIDE DEF S
    <2>2. QED
      BY <1>2, <2>1 DEF Call
  <1>4. /\ r.receiver \in Bytes32 => Call("receiver") \in Seq(S)
        /\ r.kind # "ETHER" =>
             \A thing \in Things : [name |-> "asset", item |-> thing] \in S
    <2>1. r.receiver \in Bytes32 => [name |-> "receiver", item |-> NoItem] \in S
      BY <1>2 DEF CallsOf, CallNames
    <2>2. r.kind # "ETHER" =>
            \A thing \in Things : [name |-> "asset", item |-> thing] \in S
      BY DEF CallsOf, CallNames
    <2> HIDE DEF S
    <2>3. QED
      BY <2>1, <2>2 DEF Call
  <1> HIDE DEF S
  <1>5. ASSUME NEW name \in CallNames \ {"asset", "receiver"}, IsItems(r.items)
        PROVE  Each(r.items, <<name>>) \in Seq(S)
    <2> DEFINE names == <<name>>
    <2>1. Len(names) = 1 /\ names[1] = name /\ \A j \in 1..1 : j = 1
      OBVIOUS
    <2> HIDE DEF names
    <2>2. /\ Len(names) \in {1, 2, 3}
          /\ \A j \in 1..Len(names), thing \in Things :
               [name |-> names[j], item |-> thing] \in S
      BY <1>3, <2>1
    <2>3. Each(r.items, names) \in Seq(S)
      BY <1>5, <2>2, EachIsSeq
    <2>4. QED
      BY <2>3 DEF names
  <1>6. ASSUME NEW first \in CallNames, NEW second \in CallNames, NEW third \in CallNames,
               IsItems(r.items), {first, second, third} \cap {"receiver"} = {},
               "asset" \in {first, second, third} => r.kind # "ETHER"
        PROVE  /\ Each(r.items, <<first, second>>) \in Seq(S)
               /\ Each(r.items, <<first, second, third>>) \in Seq(S)
    <2>1. \A name \in {first, second, third}, thing \in Things :
            [name |-> name, item |-> thing] \in S
      BY <1>3, <1>4, <1>6
    <2>2. Each(r.items, <<first, second>>) \in Seq(S)
      <3> DEFINE names == <<first, second>>
      <3>1. Len(names) = 2 /\ names[1] = first /\ names[2] = second
            /\ \A j \in 1..2 : j = 1 \/ j = 2
        OBVIOUS
      <3> HIDE DEF names
      <3>2. Each(r.items, names) \in Seq(S)
        BY <1>6, <2>1, <3>1, EachIsSeq
      <3>3. QED
        BY <3>2 DEF names
    <2>3. Each(r.items, <<first, second, third>>) \in Seq(S)
      <3> DEFINE names == <<first, second, third>>
      <3>1. Len(names) = 3 /\ names[1] = first /\ names[2] = second /\ names[3] = third
            /\ \A j \in 1..3 : j = 1 \/ j = 2 \/ j = 3
        OBVIOUS
      <3> HIDE DEF names
      <3>2. Each(r.items, names) \in Seq(S)
        BY <1>6, <2>1, <3>1, EachIsSeq
      <3>3. QED
        BY <3>2 DEF names
    <2>4. QED
      BY <2>2, <2>3
  <1>7. ASSUME NEW p \in Seq(S), NEW q \in Seq(S)
        PROVE  p \o q \in Seq(S)
    OBVIOUS
  <1>8. /\ Call("account") \in Seq(S) /\ Call("drop_account") \in Seq(S)
        /\ Call("drop_asset") \in Seq(S) /\ Call("voucher") \in Seq(S)
        /\ Call("unknown") \in Seq(S)
    BY <1>3 DEF CallNames
  <1>9. CASE r.op = "deposit"
    <2>1. DepositCalls(r.kind, r.items) \in Seq(S)
      <3>1. CASE r.kind = "ETHER"
        <4>1. Each(r.items, <<"account", "deposit">>) \in Seq(S)
          BY <1>1, <1>6, <1>9 DEF CallNames
        <4>2. QED
          BY <3>1, <4>1 DEF DepositCalls
      <3>2. CASE r.kind = "ERC1155_BATCH"
        <4>1. Each(r.items, <<"asset", "deposit">>) \in Seq(S)
          BY <1>1, <1>6, <1>9, <3>2 DEF CallNames
        <4>2. QED
          BY <1>7, <1>8, <3>2, <4>1 DEF DepositCalls
      <3>3. CASE r.kind \notin {"ETHER", "ERC1155_BATCH"}
        <4>1. Each(r.items, <<"asset", "account", "deposit">>) \in Seq(S)
          BY <1>1, <1>6, <1>9, <3>3 DEF CallNames
        <4>2. QED
          BY <3>3, <4>1 DEF DepositCalls
      <3>4. QED
        BY <3>1, <3>2, <3>3
    <2>2. QED
      BY <1>9, <2>1 DEF Calls
  <1>10. CASE r.op = "withdraw"
    <2>1. WithdrawCalls(r.kind, r.items) \in Seq(S)
      <3>1. CASE r.kind = "ETHER"
        <4>1. Each(r.items, <<"withdraw">>) \in Seq(S)
          BY <1>1, <1>5, <1>10 DEF CallNames
        <4>2. QED
          BY <1>7, <1>8, <3>1, <4>1 DEF WithdrawCalls
      <3>2. CASE r.kind = "ERC1155_BATCH"
        <4>1. Each(r.items, <<"asset", "withdraw", "drop_asset">>) \in Seq(S)
          BY <1>1, <1>6, <1>10, <3>2 DEF CallNames
        <4>2. QED
          BY <1>7, <1>8, <3>2, <4>1 DEF WithdrawCalls
      <3>3. CASE r.kind \notin {"ETHER", "ERC1155_BATCH"}
        <4>1. Each(r.items, <<"asset", "withdraw">>) \in Seq(S)
          BY <1>1, <1>6, <1>10, <3>3 DEF CallNames
        <4>2. QED
          BY <1>7, <1>8, <3>3, <4>1 DEF WithdrawCalls
      <3>4. QED
        BY <3>1, <3>2, <3>3
    <2>2. QED
      BY <1>7, <1>8, <1>10, <2>1 DEF Calls
  <1>11. CASE r.op = "transfer"
    <2>1. CASE r.kind = "ETHER"
      <3>1. Each(r.items, <<"transfer">>) \in Seq(S)
        BY <1>1, <1>5, <1>11 DEF CallNames
      <3>2. QED
        BY <1>1, <1>4, <1>7, <1>8, <1>11, <2>1, <3>1 DEF Calls, TransferCalls
    <2>2. CASE r.kind # "ETHER"
      <3>1. Each(r.items, <<"asset", "transfer">>) \in Seq(S)
        BY <1>1, <1>6, <1>11, <2>2 DEF CallNames
      <3>2. QED
        BY <1>1, <1>4, <1>7, <1>8, <1>11, <2>2, <3>1 DEF Calls, TransferCalls
    <2>3. QED
      BY <2>1, <2>2
  <1>12. CASE r.op \notin {"deposit", "withdraw", "transfer"}
    BY <1>7, <1>8, <1>12 DEF Calls
  <1>13. QED
    BY <1>9, <1>10, <1>11, <1>12

-----------------------------------------------------------------------------
(* The invariant of the wallet, and its steps. *)

Handling ==
  /\ IsRequest(request)
  /\ todo \in Seq(CallsOf(request))
  /\ asset_type \in AssetTypes
  /\ request.kind # "ETHER" => HasToken(asset_type)

\* Only a handler that failed may have left supplies that exceed what is held.
AppInv ==
  /\ IInv
  /\ Sound(saved)
  /\ phase \in {"starting", "idle", "running"} => Exact
  /\ phase = "running" => Handling

\* A call to the ledger, by its effect.
LEMMA ProceedHolds ==
  ASSUME AppInv, phase = "running", todo # <<>>, IInv', Effect, Proceed,
         asset_type' = asset_type \/ HasToken(asset_type')
  PROVE  AppInv'
  <1>1. IInv /\ Exact /\ Handling /\ Sound(saved)
    BY DEF AppInv
  <1>2. Sound(saved') /\ request' = request
    BY <1>1 DEF Proceed
  <1>3. CASE result' = "SUCCESS"
    <2>1. Exact'
      BY <1>1, <1>3, ExactKept
    <2>2. Tail(todo) \in Seq(CallsOf(request)) /\ todo' = Tail(todo) /\ phase' = "running"
      BY <1>1, <1>3 DEF Proceed, Handling
    <2>3. /\ asset_type' \in AssetTypes
          /\ request.kind # "ETHER" => HasToken(asset_type')
      BY <1>1 DEF Handling, HasToken, HasTokenId, AssetTypes
    <2>4. QED
      BY <1>1, <1>2, <2>1, <2>2, <2>3 DEF AppInv, Handling
  <1>4. CASE result' # "SUCCESS"
    BY <1>2, <1>4 DEF AppInv, Proceed
  <1>5. QED
    BY <1>3, <1>4

LEMMA HeadIsCall ==
  ASSUME AppInv, NEW name, NextCall(name)
  PROVE  /\ IInv /\ Handling /\ phase = "running" /\ todo # <<>>
         /\ Item \in Things
         /\ name = "asset" => request.kind # "ETHER"
         /\ name = "receiver" => request.receiver \in Bytes32
  <1>1. IInv /\ Handling /\ phase = "running" /\ todo # <<>> /\ Head(todo).name = name
    BY DEF AppInv, NextCall
  <1>2. Head(todo) \in CallsOf(request)
    BY <1>1 DEF Handling
  <1>3. QED
    BY <1>1, <1>2 DEF CallsOf, Item

LEMMA SenderHolds ==
  ASSUME AppInv, RetrieveSender
  PROVE  AppInv'
  <1>1. IInv /\ Handling /\ phase = "running" /\ todo # <<>>
    BY HeadIsCall DEF RetrieveSender
  <1>2. request.sender \in Wallets
    BY <1>1 DEF Handling, IsRequest, RequestsOf
  <1>3. RetrieveAccountByBytes("FIND_OR_CREATE", "WALLET_ADDRESS", request.sender, FALSE)
    BY DEF RetrieveSender
  <1>4. IInv' /\ Effect
    BY <1>1, <1>2, <1>3, AccountByBytesKeeps, AccountByBytesEffect DEF AccountTypes, Bytes32
  <1>5. QED
    BY <1>1, <1>4, ProceedHolds DEF RetrieveSender

LEMMA ReceiverHolds ==
  ASSUME AppInv, RetrieveReceiver
  PROVE  AppInv'
  <1>1. /\ IInv /\ Handling /\ phase = "running" /\ todo # <<>>
        /\ request.receiver \in Bytes32
    BY HeadIsCall DEF RetrieveReceiver
  <1>2. RetrieveAccountByBytes("FIND_OR_CREATE", "ACCOUNT_ID", request.receiver, FALSE)
    BY DEF RetrieveReceiver
  <1>3. IInv' /\ Effect
    BY <1>1, <1>2, AccountByBytesKeeps, AccountByBytesEffect DEF AccountTypes
  <1>4. QED
    BY <1>1, <1>3, ProceedHolds DEF RetrieveReceiver

\* An asset that was found or made under a token has a type with a token.
LEMMA TokenHolds ==
  ASSUME AppInv, RetrieveToken
  PROVE  AppInv'
  <1> DEFINE token == Item.token
             token_id == Item.token_id
             key == AssetKey(asset_type, token, token_id)
  <1>1. /\ IInv /\ Handling /\ phase = "running" /\ todo # <<>>
        /\ Item \in Things /\ request.kind # "ETHER"
    BY HeadIsCall DEF RetrieveToken
  <1>2. /\ asset_type \in AssetTypes /\ HasToken(asset_type)
        /\ token \in Tokens \cup {Zero} /\ token_id \in TokenIds \cup {Zero}
    BY <1>1 DEF Handling, Things
  <1>3. RetrieveAssetByToken("FIND_OR_CREATE", asset_type, token, token_id)
    BY DEF RetrieveToken
  <1> HIDE DEF token, token_id
  <1>4. IInv' /\ Effect
    BY <1>1, <1>2, <1>3, AssetByTokenKeeps, AssetByTokenEffect
  <1>5. ASSUME result' = "SUCCESS"
        PROVE  key \in DOMAIN asset_to_lassid'
    <2> DEFINE tid == IF HasTokenId(asset_type) THEN token_id ELSE Zero
    <2>1. AssetKey(asset_type, token, tid) = key
      BY DEF AssetKey
    <2>2. \/ key \in DOMAIN asset_to_lassid /\ UNCHANGED ledger
          \/ CreateAsset(asset_type, token, tid)
      BY <1>3, <1>5 DEF RetrieveAssetByToken, RetrieveAsset, Return
    <2> HIDE DEF tid, key
    <2>3. CASE key \in DOMAIN asset_to_lassid /\ UNCHANGED ledger
      BY <2>3 DEF ledger, assetVars
    <2>4. CASE CreateAsset(asset_type, token, tid)
      BY <1>2, <1>5, <2>1, <2>4 DEF CreateAsset, Return, Insert
    <2>5. QED
      BY <2>2, <2>3, <2>4
  <1>6. ASSUME result' = "SUCCESS"
        PROVE  HasToken(asset_type')
    <2>1. /\ lass_id' = asset_to_lassid'[key]
          /\ asset_type' = lassid_to_asset'[lass_id'].type
      BY <1>6 DEF RetrieveToken, token, token_id
    <2>2. HasToken(lassid_to_asset'[asset_to_lassid'[key]].type)
      BY <1>4, <1>5, <1>6 DEF IInv, AssetsOK, AssetKeysMatch
    <2>3. QED
      BY <2>1, <2>2
  <1>7. asset_type' = asset_type \/ HasToken(asset_type')
    BY <1>6 DEF RetrieveToken
  <1>8. QED
    BY <1>1, <1>4, <1>7, ProceedHolds DEF RetrieveToken

\* A call about a balance, whatever ids and amount it is given.
LEMMA ReturnHolds ==
  ASSUME IInv, NEW code \in Errors \cup {"SUCCESS"}, Return(code)
  PROVE  IInv' /\ Effect
  BY ReturnKeeps DEF Return, Effect

LEMMA AnyDepositHolds ==
  ASSUME IInv, NEW a, NEW u, NEW amount \in Nat, Deposit(a, u, amount)
  PROVE  IInv' /\ Effect
  <1>1. CASE DepositError(a, u, amount) # "SUCCESS"
    <2>1. DepositError(a, u, amount) \in Errors
      BY <1>1 DEF DepositError, Errors
    <2>2. QED
      BY <1>1, <2>1, ReturnHolds DEF Deposit
  <1>2. CASE DepositError(a, u, amount) = "SUCCESS"
    <2>1. a \in Assets /\ u \in Accounts /\ ~(Supply(a) + amount > MaxAmount)
      BY <1>2 DEF DepositError
    <2>2. a \in AssetIds /\ u \in AccountIds
      BY <2>1 DEF IInv, AssetsOK, AccountsOK
    <2>3. Supply(a) \in Nat /\ MaxAmount \in Nat /\ Amounts = 0..MaxAmount
      BY <2>1, TypesAssumption DEF IInv, AssetsOK, AssetRecord, Amounts, Supply
    <2>4. amount \in Amounts
      BY <2>1, <2>3
    <2>5. QED
      BY <2>2, <2>4, DepositKeeps, DepositEffect
  <1>3. QED
    BY <1>1, <1>2

LEMMA AnyWithdrawHolds ==
  ASSUME IInv, NEW a, NEW u, NEW amount \in Nat, Withdraw(a, u, amount)
  PROVE  IInv' /\ Effect
  <1>1. CASE WithdrawError(a, u, amount) # "SUCCESS"
    <2>1. WithdrawError(a, u, amount) \in Errors
      BY <1>1 DEF WithdrawError, Errors
    <2>2. QED
      BY <1>1, <2>1, ReturnHolds DEF Withdraw
  <1>2. CASE WithdrawError(a, u, amount) = "SUCCESS"
    <2>1. a \in Assets /\ u \in Accounts /\ ~(amount > Supply(a))
      BY <1>2 DEF WithdrawError
    <2>2. a \in AssetIds /\ u \in AccountIds
      BY <2>1 DEF IInv, AssetsOK, AccountsOK
    <2>3. Supply(a) \in 0..MaxAmount /\ MaxAmount \in Nat /\ Amounts = 0..MaxAmount
      BY <2>1, TypesAssumption DEF IInv, AssetsOK, AssetRecord, Amounts, Supply
    <2>4. amount \in Amounts
      BY <2>1, <2>3
    <2>5. QED
      BY <2>2, <2>4, WithdrawKeeps, WithdrawEffect
  <1>3. QED
    BY <1>1, <1>2

LEMMA AnyTransferHolds ==
  ASSUME IInv, NEW a, NEW from, NEW to, NEW amount \in Nat,
         Transfer(a, from, to, amount)
  PROVE  IInv' /\ Effect
  <1>1. CASE TransferError(a, from, to, amount) # "SUCCESS"
    <2>1. TransferError(a, from, to, amount) \in Errors
      BY <1>1 DEF TransferError, Errors
    <2>2. Return(TransferError(a, from, to, amount))
      BY <1>1 DEF Transfer
    <2>3. QED
      BY <2>1, <2>2, ReturnHolds
  <1>2. CASE TransferError(a, from, to, amount) = "SUCCESS"
    <2>1. /\ a \in Assets /\ from \in Accounts /\ to \in Accounts
          /\ ~(amount > Balance(a, from))
      BY <1>2 DEF TransferError
    <2>2. a \in AssetIds /\ from \in AccountIds /\ to \in AccountIds
      BY <2>1 DEF IInv, AssetsOK, AccountsOK
    <2>3. Balance(a, from) \in Amounts
      BY BalanceType DEF Balance, IInv, TableFits, Fits
    <2>4. amount \in Amounts
      BY <2>1, <2>3, TypesAssumption DEF Amounts
    <2>5. QED
      BY <2>2, <2>4, TransferKeeps, TransferEffect
  <1>3. QED
    BY <1>1, <1>2

LEMMA BalanceStepsHold ==
  ASSUME AppInv, DepositItem \/ WithdrawItem \/ TransferItem
  PROVE  AppInv'
  <1>1. IInv /\ phase = "running" /\ todo # <<>> /\ Item.amount \in Nat
    BY HeadIsCall DEF DepositItem, WithdrawItem, TransferItem, Things
  <1>2. CASE DepositItem
    <2>1. IInv' /\ Effect
      BY <1>1, <1>2, AnyDepositHolds DEF DepositItem
    <2>2. QED
      BY <1>1, <1>2, <2>1, ProceedHolds DEF DepositItem, locals
  <1>3. CASE WithdrawItem
    <2>1. IInv' /\ Effect
      BY <1>1, <1>3, AnyWithdrawHolds DEF WithdrawItem
    <2>2. QED
      BY <1>1, <1>3, <2>1, ProceedHolds DEF WithdrawItem, locals
  <1>4. CASE TransferItem
    <2>1. IInv' /\ Effect
      BY <1>1, <1>4, AnyTransferHolds DEF TransferItem
    <2>2. QED
      BY <1>1, <1>4, <2>1, ProceedHolds DEF TransferItem, locals
  <1>5. QED
    BY <1>2, <1>3, <1>4

LEMMA DropsHold ==
  ASSUME AppInv, CheckAndRemoveAccount \/ CheckAndRemoveAsset
  PROVE  AppInv'
  <1>1. IInv /\ phase = "running" /\ todo # <<>>
    BY HeadIsCall DEF CheckAndRemoveAccount, CheckAndRemoveAsset
  <1>2. CASE CheckAndRemoveAccount
    <2>1. PICK op : RetrieveAccountById(op, lacc_id)
      BY <1>2 DEF CheckAndRemoveAccount
    <2>2. IInv' /\ Effect
      BY <1>1, <2>1, AccountByIdKeeps, AccountByIdEffect
    <2>3. QED
      BY <1>1, <1>2, <2>2, ProceedHolds DEF CheckAndRemoveAccount, locals
  <1>3. CASE CheckAndRemoveAsset
    <2>1. Return("SUCCESS") \/ \E op : RetrieveAssetById(op, "ID", lass_id)
      BY <1>3 DEF CheckAndRemoveAsset
    <2>2. "ID" \in AssetTypes /\ ~HasToken("ID")
      BY DEF AssetTypes, HasToken, HasTokenId
    <2>3. IInv' /\ Effect
      BY <1>1, <2>1, <2>2, ReturnHolds, AssetByIdKeeps, AssetByIdEffect
    <2>4. QED
      BY <1>1, <1>3, <2>3, ProceedHolds DEF CheckAndRemoveAsset, locals
  <1>4. QED
    BY <1>2, <1>3

LEMMA OthersHold ==
  ASSUME AppInv, EmitVoucher \/ RefuseUnknown
  PROVE  AppInv'
  <1>1. IInv /\ phase = "running" /\ todo # <<>>
    BY HeadIsCall DEF EmitVoucher, RefuseUnknown
  <1>2. Return("SUCCESS") \/ Return("EINVAL")
    BY DEF EmitVoucher, RefuseUnknown
  <1>3. IInv' /\ Effect
    BY <1>1, <1>2, ReturnHolds DEF Errors
  <1>4. QED
    BY <1>1, <1>3, ProceedHolds DEF EmitVoucher, RefuseUnknown, locals

\* main looks up the base asset under an id that may be any.
LEMMA StartKeeps ==
  ASSUME AppInv, Start
  PROVE  AppInv'
  <1>1. IInv /\ Exact
    BY DEF AppInv, Start
  <1>2. PICK garbage : RetrieveAssetById("FIND_OR_CREATE", "BASE", garbage)
    BY DEF Start
  <1>3. "BASE" \in AssetTypes /\ ~HasToken("BASE")
    BY DEF AssetTypes, HasToken, HasTokenId
  <1>4. IInv' /\ Effect
    BY <1>1, <1>2, <1>3, AssetByIdKeeps, AssetByIdEffect
  <1>5. result' # "MAX_BALANCES_REACHED"
    BY <1>2 DEF RetrieveAssetById, RetrieveAsset, CreateAsset, RemoveAsset, Return
  <1>6. Exact'
    BY <1>1, <1>4, <1>5, ExactKept
  <1>7. (IInv /\ Exact <=> Sound(Snapshot) /\ ResultOK)'
    BY SnapshotSound, PTL
  <1>8. Sound(saved')
    BY <1>4, <1>6, <1>7 DEF Start
  <1>9. QED
    BY <1>4, <1>6, <1>8 DEF AppInv, Start

LEMMA ReceiveKeeps ==
  ASSUME AppInv, Receive
  PROVE  AppInv'
  <1>1. IInv /\ Exact /\ UNCHANGED <<ledger, result>>
    BY DEF AppInv, Receive
  <1>2. IInv' /\ Exact'
    <2>1. ResultOK'
      BY <1>1 DEF IInv, ResultOK
    <2>2. Effect /\ IInv'
      BY <1>1, <2>1, SameLedger DEF Effect
    <2>3. Exact'
      BY <1>1 DEF Exact, Limit, Assets, Supply, ledger, assetVars
    <2>4. QED
      BY <2>2, <2>3
  <1>3. Sound(saved')
    BY <1>1, SnapshotSound DEF Receive
  <1>4. IsRequest(request')
    BY DEF Receive, IsRequest
  <1>5. todo' \in Seq(CallsOf(request'))
    BY <1>4, CallsAreCalls DEF Receive
  <1>6. /\ asset_type' \in AssetTypes
        /\ request'.kind # "ETHER" => HasToken(asset_type')
    <2>1. request'.kind \in {"ETHER", "ERC20", "ERC721", "ERC1155_SINGLE", "ERC1155_BATCH"}
      BY <1>4, WalletAssumption DEF IsRequest, RequestsOf
    <2>2. asset_type' = AssetTypeOf(request'.kind)
      BY DEF Receive
    <2>3. QED
      BY <2>1, <2>2 DEF AssetTypeOf, AssetTypes, HasToken, HasTokenId
  <1>7. QED
    BY <1>2, <1>3, <1>4, <1>5, <1>6 DEF AppInv, Handling, Receive

LEMMA AcceptKeeps ==
  ASSUME AppInv, Accept
  PROVE  AppInv'
  <1>1. IInv /\ Exact /\ UNCHANGED ledger /\ result' = "SUCCESS" /\ phase' = "idle"
    BY DEF AppInv, Accept, EndRequest
  <1>2. IInv'
    BY <1>1, SameLedger DEF ResultOK
  <1>3. Exact'
    BY <1>1 DEF Exact, Limit, Assets, Supply, ledger, assetVars
  <1>4. Sound(saved')
    BY <1>1, SnapshotSound DEF Accept
  <1>5. QED
    BY <1>1, <1>2, <1>3, <1>4 DEF AppInv

LEMMA RejectKeeps ==
  ASSUME AppInv, Reject
  PROVE  AppInv'
  <1>1. Sound(saved) /\ saved' = saved /\ Revert /\ result' = "SUCCESS" /\ phase' = "idle"
    BY DEF AppInv, Reject, EndRequest
  <1>2. IInv' /\ Exact'
    BY <1>1, RevertHolds
  <1>3. QED
    BY <1>1, <1>2 DEF AppInv

LEMMA AppInitHolds == AppInit => AppInv
  <1> SUFFICES ASSUME AppInit
               PROVE  AppInv
    OBVIOUS
  <1>1. IInv /\ Exact
    BY InitIInv, InitExact DEF AppInit
  <1>2. Sound(saved)
    BY <1>1, SnapshotSound DEF AppInit
  <1>3. QED
    BY <1>1, <1>2 DEF AppInv, AppInit

LEMMA AppNextHolds == AppInv /\ [AppNext]_appvars => AppInv'
  <1> SUFFICES ASSUME AppInv, [AppNext]_appvars
               PROVE  AppInv'
    OBVIOUS
  <1>1. CASE Start
    BY <1>1, StartKeeps
  <1>2. CASE Receive
    BY <1>2, ReceiveKeeps
  <1>3. CASE Step
    BY <1>3, SenderHolds, ReceiverHolds, TokenHolds, BalanceStepsHold, DropsHold,
       OthersHold DEF Step
  <1>4. CASE Accept
    BY <1>4, AcceptKeeps
  <1>5. CASE Reject
    BY <1>5, RejectKeeps
  <1>6. CASE UNCHANGED appvars
    <2>1. UNCHANGED ledger /\ ResultOK'
      BY <1>6 DEF appvars, vars, AppInv, IInv, ResultOK
    <2>2. IInv'
      BY <2>1, SameLedger DEF AppInv
    <2>3. Exact' = Exact
      BY <2>1 DEF Exact, Limit, Assets, Supply, ledger, assetVars
    <2>4. QED
      BY <1>6, <2>2, <2>3 DEF AppInv, Handling, appvars, appVars, locals
  <1>7. QED
    BY <1>1, <1>2, <1>3, <1>4, <1>5, <1>6 DEF AppNext

LEMMA AppInvariance == AppSpec => []AppInv
  BY AppInitHolds, AppNextHolds, PTL DEF AppSpec

\* Between requests the supply of every token is what the accounts hold, whatever the
\* limits of the ledger are: unlike for the ledger alone (ConservationHolds), a map
\* with too little room does no harm, as the request that it stops is undone.
THEOREM ConservedHolds == AppSpec => []ConservedAtRest
  <1>1. AppInv => ConservedAtRest
    <2>1. IInv /\ Exact => Conservation
      BY HeldIsRow DEF Exact, Limit, Conservation, IInv, AssetsOK
    <2>2. QED
      BY <2>1 DEF AppInv, ConservedAtRest
  <1>2. QED
    BY <1>1, AppInvariance, PTL

-----------------------------------------------------------------------------
(***************************************************************************)
(* The drive reader.  The ledger does not move while a run is shown, so    *)
(* what is needed is an invariant of the ledger: IInv, that supplies cover *)
(* what is held, and that a record in use has a type even after its asset  *)
(* was removed, when nothing in the registry describes it any more.        *)
(***************************************************************************)

Typed(s) ==
  \A k \in Entries(s) : ~IsVirtual(s, k) => s.balances[At(s, k)].header.type # "ID"

LEMMA ProvedIsTyped ==
  ASSUME NEW s, NEW k, NEW asset, NEW account,
         EntryFits(s, k, asset, account), ~IsVirtual(s, k)
  PROVE  /\ Proved(asset, account)
         /\ s.balances[At(s, k)].header = HeaderOf(asset, account)
         /\ s.balances[At(s, k)].header.type # "ID"
  BY DEF EntryFits, Proved, HeaderOf

\* A balance that is set leaves the records of the assets that were removed.
LEMMA SetKeepsTyped ==
  ASSUME AssetsOK, AccountsOK, NEW s, Typed(s),
         Fits(s, lassid_to_asset, laccid_to_account, next_asset_id),
         NEW a \in Assets, NEW u \in Accounts, ~NoRoom(s, a, u),
         NEW amount \in Amounts,
         NEW t, t = SetAccountAssetBalance(s, a, u, amount)
  PROVE  Typed(t)
  <1>1. /\ Fits(t, lassid_to_asset, laccid_to_account, next_asset_id)
        /\ OthersKept(s, t, <<a, u>>)
    BY SetKeepsFit
  <1>2. ASSUME NEW k \in Entries(t), ~IsVirtual(t, k)
        PROVE  t.balances[At(t, k)].header.type # "ID"
    <2>1. CASE k[1] \in Assets
      <3>1. EntryFits(t, k, lassid_to_asset[k[1]], laccid_to_account[k[2]])
        BY <1>1, <2>1 DEF Fits, Assets
      <3>2. QED
        BY <1>2, <3>1, ProvedIsTyped
    <2>2. CASE k[1] \notin Assets
      <3>1. k # <<a, u>>
        BY <2>2
      <3>2. /\ k \in Entries(s) /\ ~IsVirtual(s, k)
            /\ t.balances[At(t, k)].header = s.balances[At(s, k)].header
        BY <1>1, <1>2, <3>1 DEF OthersKept, IsVirtual
      <3>3. QED
        BY <3>2 DEF Typed
    <2>3. QED
      BY <2>1, <2>2
  <1>3. QED
    BY <1>2 DEF Typed

LEMMA BalanceCallKeepsTyped ==
  ASSUME IInv, Typed(table), BalanceCall
  PROVE  Typed(table')
  <1>1. PICK a \in AssetIds, u \in AccountIds, amount \in Amounts :
          \/ Deposit(a, u, amount)
          \/ Withdraw(a, u, amount)
          \/ \E to \in AccountIds : Transfer(a, u, to, amount)
    BY DEF BalanceCall
  <1>2. /\ AssetsOK /\ AccountsOK
        /\ Fits(table, lassid_to_asset, laccid_to_account, next_asset_id)
    BY DEF IInv, TableFits
  <1>3. CASE UNCHANGED table
    BY <1>3
  <1>4. CASE Deposit(a, u, amount) /\ ~UNCHANGED table
    <2> DEFINE more == Balance(a, u) + amount
    <2>1. DepositError(a, u, amount) = "SUCCESS"
          /\ table' = SetAccountAssetBalance(table, a, u, more)
      BY <1>4 DEF Deposit, Return, ledger
    <2>2. /\ a \in Assets /\ u \in Accounts /\ ~(more > MaxAmount)
          /\ ~NoRoom(table, a, u)
      BY <2>1 DEF DepositError
    <2>3. more \in Amounts
      BY <2>2, AmountFacts
    <2> HIDE DEF more
    <2>4. QED
      BY <1>2, <2>1, <2>2, <2>3, SetKeepsTyped
  <1>5. CASE Withdraw(a, u, amount) /\ ~UNCHANGED table
    <2> DEFINE left == Balance(a, u) - amount
    <2>1. WithdrawError(a, u, amount) = "SUCCESS"
          /\ table' = SetAccountAssetBalance(table, a, u, left)
      BY <1>5 DEF Withdraw, Return, ledger
    <2>2. /\ a \in Assets /\ u \in Accounts /\ ~(amount > Balance(a, u))
          /\ ~NoRoom(table, a, u)
      BY <2>1 DEF WithdrawError
    <2>3. left \in Amounts
      BY <2>2, AmountFacts
    <2> HIDE DEF left
    <2>4. QED
      BY <1>2, <2>1, <2>2, <2>3, SetKeepsTyped
  <1>6. ASSUME NEW to \in AccountIds, Transfer(a, u, to, amount), ~UNCHANGED table
        PROVE  Typed(table')
    <2> DEFINE debited == Debited(a, u, amount)
               more    == Balance(a, to) + amount
               left    == Balance(a, u) - amount
    <2>1. TransferError(a, u, to, amount) = "SUCCESS"
      BY <1>6 DEF Transfer, Return, ledger
    <2>2. /\ a \in Assets /\ u \in Accounts /\ to \in Accounts
          /\ left \in Amounts /\ more \in Amounts
          /\ Fits(debited, lassid_to_asset, laccid_to_account, next_asset_id)
      BY <2>1, TransferDebits
    <2>3. ~NoRoom(table, a, u) /\ debited = SetAccountAssetBalance(table, a, u, left)
      BY <2>1 DEF TransferError, Debited
    <2>4. \/ table' = debited
          \/ /\ ~NoRoom(debited, a, to)
             /\ table' = SetAccountAssetBalance(debited, a, to, more)
      BY <1>6, <2>1 DEF Transfer
    <2> HIDE DEF debited, more, left
    <2>5. Typed(debited)
      BY <1>2, <2>2, <2>3, SetKeepsTyped
    <2>6. QED
      BY <1>2, <2>2, <2>4, <2>5, SetKeepsTyped
  <1>7. QED
    BY <1>1, <1>3, <1>4, <1>5, <1>6

LEMMA NextKeepsTyped ==
  ASSUME IInv, Typed(table), [Next]_vars
  PROVE  Typed(table')
  <1>1. CASE AssetCall
    <2>1. ASSUME NEW op, NEW found, NEW a, NEW type, NEW token, NEW token_id,
                 RetrieveAsset(op, found, a, type, token, token_id)
          PROVE  table' = table
      <3>1. CreateAsset(type, token, token_id) => table' = table
        BY DEF CreateAsset, Return, ledger
      <3>2. RemoveAsset(a) => table' = table
        BY DEF RemoveAsset, Return, ledger
      <3>3. QED
        BY <2>1, <3>1, <3>2 DEF RetrieveAsset, Return, ledger
    <2>2. table' = table
      BY <1>1, <2>1 DEF AssetCall, RetrieveAssetById, RetrieveAssetByToken
    <2>3. QED
      BY <2>2
  <1>2. CASE AccountCall
    <2>1. ASSUME NEW op, NEW found, NEW u, NEW type, NEW bytes,
                 RetrieveAccount(op, found, u, type, bytes)
          PROVE  table' = table
      <3>1. CreateAccount(type, bytes) => table' = table
        BY DEF CreateAccount, Return, ledger
      <3>2. RemoveAccount(u) => table' = table
        BY DEF RemoveAccount, Return, ledger
      <3>3. QED
        BY <2>1, <3>1, <3>2 DEF RetrieveAccount, Return, ledger
    <2>2. table' = table
      BY <1>2, <2>1 DEF AccountCall, RetrieveAccountById, RetrieveAccountByBytes
    <2>3. QED
      BY <2>2
  <1>3. CASE BalanceCall
    BY <1>3, BalanceCallKeepsTyped
  <1>4. CASE Reset
    <2>1. table' = EmptyTable
      BY <1>4, ClearTableEmpties DEF Reset, IInv, TableFits, Fits
    <2>2. QED
      BY <2>1, EmptyTableWellFormed DEF Typed
  <1>5. CASE UNCHANGED vars
    BY <1>5 DEF vars, ledger
  <1>6. QED
    BY <1>1, <1>2, <1>3, <1>4, <1>5 DEF Next

-----------------------------------------------------------------------------
(* The ledger between the runs. *)

\* --initialize leaves what a reset would, and the first ids again.
LEMMA InitializeKeeps ==
  ASSUME IInv, Initialize
  PROVE  IInv' /\ Effect /\ Typed(table')
  <1>1. Assets' = {} /\ Accounts' = {} /\ table' = EmptyTable /\ result' = "SUCCESS"
    BY DEF Initialize, Assets, Accounts
  <1>2. AssetsOK'
    <2>1. /\ DOMAIN lassid_to_asset' = {} /\ DOMAIN asset_to_lassid' = {}
          /\ next_asset_id' = 0 /\ base_asset_id' = 0
          /\ base_asset_id_defined' = FALSE
      BY DEF Initialize
    <2>2. AssetKeysMatch' /\ BaseIsUnique'
      BY <1>1, <2>1 DEF AssetKeysMatch, BaseIsUnique
    <2>3. /\ lassid_to_asset' \in [Assets' -> AssetRecord]
          /\ asset_to_lassid' \in [DOMAIN asset_to_lassid' -> AssetIds]
      BY <1>1 DEF Initialize, Assets
    <2>4. /\ Assets' \subseteq AssetIds
          /\ next_asset_id' \in 0..MaxAssets
          /\ base_asset_id' \in Nat
      BY <1>1, <2>1, TypesAssumption
    <2>5. base_asset_id_defined' \in BOOLEAN
      BY <2>1
    <2>6. QED
      BY <1>1, <2>2, <2>3, <2>4, <2>5 DEF AssetsOK
  <1>3. AccountsOK'
    <2>1. DOMAIN account_to_laccid' = {} /\ next_account_id' = 0
      BY DEF Initialize
    <2>2. AccountKeysMatch'
      BY <1>1, <2>1 DEF AccountKeysMatch
    <2>3. /\ laccid_to_account' \in [Accounts' -> AccountRecord]
          /\ account_to_laccid' \in [DOMAIN account_to_laccid' -> AccountIds]
      BY <1>1 DEF Initialize, Accounts
    <2>4. QED
      BY <1>1, <2>1, <2>2, <2>3, TypesAssumption DEF AccountsOK
  <1>4. TableFits' /\ Typed(table')
    BY <1>1, EmptyTableWellFormed DEF TableFits, Fits, Typed
  <1>5. OneHand' /\ ResultOK'
    BY <1>1 DEF OneHand, ResultOK
  <1>6. QED
    BY <1>1, <1>2, <1>3, <1>4, <1>5 DEF IInv, Effect, Emptied

\* What a run of the reader, or a call of the application between two runs, is to the
\* ledger.
ReaderStep == Initialize \/ Next \/ UNCHANGED vars

LEMMA ReadSteps ==
  ASSUME [ReaderNext]_readerVars
  PROVE  ReaderStep
  <1>1. CASE Read
    BY <1>1 DEF Read, ReaderStep, Dump, Total, FindIndex, Find
  <1>2. QED
    BY <1>1 DEF ReaderNext, Exit, LedgerCall, ReaderStep, readerVars

LedgerInv == IInv /\ Covers /\ Typed(table)

LEMMA StepKeepsLedger ==
  ASSUME LedgerInv, ReaderStep
  PROVE  LedgerInv' /\ Effect
  <1>1. IInv' /\ Effect /\ Typed(table')
    <2>1. CASE Initialize
      BY <2>1, InitializeKeeps DEF LedgerInv
    <2>2. CASE [Next]_vars
      BY <2>2, NextIInv, NextEffect, NextKeepsTyped DEF LedgerInv
    <2>3. QED
      BY <2>1, <2>2 DEF ReaderStep
  <1>2. Covers'
    BY <1>1, CoversKept DEF LedgerInv
  <1>3. QED
    BY <1>1, <1>2 DEF LedgerInv

LEMMA ReaderInitHolds == ReaderInit => LedgerInv /\ Exact
  <1> SUFFICES ASSUME Init
               PROVE  LedgerInv /\ Exact
    BY DEF ReaderInit
  <1>1. IInv /\ Exact
    BY InitIInv, InitExact
  <1>2. Covers
    BY <1>1, LimitType DEF Covers, Exact
  <1>3. Typed(table)
    BY EmptyTableWellFormed DEF Init, Typed
  <1>4. QED
    BY <1>1, <1>2, <1>3 DEF LedgerInv

LEMMA ReaderInvariance == ReaderSpec => []LedgerInv
  BY ReaderInitHolds, ReadSteps, StepKeepsLedger, PTL DEF ReaderSpec

\* A run of the reader is no step of the abstract ledger, but for --initialize, which
\* empties it; the calls in between are its steps, as they are without the reader.
THEOREM ReaderRefinement ==
  ASSUME RoomForAll
  PROVE  ReaderSpec => RefinesLedger
  <1>1. ReaderInit => Abstract!Init
    BY DEF ReaderInit, Init, Abstract!Init, Assets, Accounts, BalanceOf, EmptyTable,
           Table, Entries, Key
  <1>2. LedgerInv /\ Exact /\ [ReaderNext]_readerVars =>
          [Abstract!Next]_(Abstract!vars) /\ Exact'
    <2> SUFFICES ASSUME LedgerInv, Exact, [ReaderNext]_readerVars
                 PROVE  [Abstract!Next]_(Abstract!vars) /\ Exact'
      OBVIOUS
    <2>1. IInv /\ IInv' /\ Effect
      BY ReadSteps, StepKeepsLedger DEF LedgerInv
    <2>2. QED
      BY <2>1, EffectRefines, ExactKept
  <1>3. QED
    BY ReaderInitHolds, <1>1, <1>2, ReaderInvariance, PTL
       DEF ReaderSpec, RefinesLedger, Abstract!Spec

-----------------------------------------------------------------------------
(* What a run shows. *)

\* No property is about the time between two runs.
LEMMA NothingShown ==
  ASSUME run = NoRun
  PROVE  SearchFindsTheRecord /\ IndexShowsRecordsInUse /\ DumpAddsUp
  <1>1. run.operation = "NOP" /\ run.output.kind = "none"
    BY DEF NoRun, NoOutput, Output
  <1>2. \A i \in DOMAIN Finds : Finds[i] # "NOP"
    BY DEF Finds
  <1>3. ~Found
    BY <1>1, <1>2 DEF Found, Range
  <1>4. QED
    BY <1>1, <1>3 DEF SearchFindsTheRecord, FoundIsTheOwners, MissingHasNone,
                      IndexShowsRecordsInUse, DumpAddsUp

\* A record in use is the entry of the key listed at its index, with its balance; its
\* asset and account are the live ones it describes, or the asset was removed and it
\* is worth nothing.
LEMMA RecordInUse ==
  ASSUME LedgerInv, NEW i \in 1..Len(table.last_balances)
  PROVE  \E a \in AssetIds, u \in Accounts :
           /\ table.last_balances[i] = <<a, u>>
           /\ HasRecord(a, u) /\ At(table, <<a, u>>) = i
           /\ table.balances[i].amount = Balance(a, u)
           /\ a \in Assets => IsWithdrawable(a, u)
                                /\ table.balances[i].header = HeaderFor(a, u)
           /\ a \notin Assets => Balance(a, u) = 0
  <1>1. /\ WellFormed(table) /\ TableType(table) /\ Packed(table)
        /\ DOMAIN table.last_balances = 1..Len(table.last_balances)
    BY WellFormedIsWhole, WholeFacts DEF LedgerInv, IInv, TableFits, Fits, WellFormed
  <1> DEFINE k == table.last_balances[i]
  <1>2. /\ k \in Entries(table) /\ ~IsVirtual(table, k) /\ At(table, k) = i
    BY <1>1 DEF Packed, ListMatchesMap, IsVirtual
  <1> HIDE DEF k
  <1>3. PICK a \in AssetIds, u \in AccountIds : k = <<a, u>>
    BY <1>1, <1>2 DEF TableType, Key
  <1>4. /\ u \in Accounts
        /\ a \in Assets => EntryFits(table, k, lassid_to_asset[a], laccid_to_account[u])
    BY <1>2, <1>3 DEF LedgerInv, IInv, TableFits, Fits, Assets, Accounts
  <1>5. table.balances[i].amount = Balance(a, u)
    BY <1>2, <1>3 DEF Balance, BalanceOf
  <1>6. a \in Assets => IsWithdrawable(a, u) /\ table.balances[i].header = HeaderFor(a, u)
    BY <1>2, <1>4 DEF EntryFits, Proved, HeaderOf, IsWithdrawable, HeaderFor
  <1>7. a \notin Assets => Balance(a, u) = 0
    <2>1. ASSUME a \notin Assets
          PROVE  Balance(a, u) = 0
      <3>1. RowSum(table, a) <= 0
        BY <2>1 DEF LedgerInv, Covers, Limit
      <3>2. /\ RowSum(table, a) \in Nat
            /\ Row(table, a)[u] \in Nat /\ Row(table, a)[u] = BalanceOf(table, <<a, u>>)
            /\ BalanceOf(table, <<a, u>>) <= RowSum(table, a)
        BY <1>1, RowFacts
      <3> DEFINE m == RowSum(table, a)
                 n == BalanceOf(table, <<a, u>>)
      <3>3. m <= 0 /\ n <= m /\ m \in Nat /\ n \in Nat
        BY <3>1, <3>2
      <3> HIDE DEF m, n
      <3>4. n = 0
        BY <3>3
      <3>5. QED
        BY <3>4 DEF n, Balance
    <2>2. QED
      BY <2>1
  <1>8. HasRecord(a, u) /\ At(table, <<a, u>>) = i
    BY <1>2, <1>3 DEF HasRecord
  <1>9. QED
    BY <1>3, <1>4, <1>5, <1>6, <1>7, <1>8 DEF k

\* No type but that of a free record is zero.
LEMMA UsedIsTyped ==
  ASSUME LedgerInv, NEW i \in 1..MaxBalances
  PROVE  table.balances[i].header.type # "ID" <=> i <= Len(table.last_balances)
  <1>1. Len(table.last_balances) \in Nat /\ MaxBalances \in Nat /\ FreeRecordsZero(table)
    BY WellFormedIsWhole, WholeFacts DEF LedgerInv, IInv, TableFits, Fits
  <1>2. CASE i <= Len(table.last_balances)
    <2>1. i \in 1..Len(table.last_balances)
      BY <1>1, <1>2
    <2>2. PICK k \in Entries(table) : ~IsVirtual(table, k) /\ At(table, k) = i
      BY <2>1, RecordInUse DEF HasRecord
    <2>3. QED
      BY <1>2, <2>2 DEF LedgerInv, Typed
  <1>3. CASE ~(i <= Len(table.last_balances))
    <2>1. table.balances[i] = ZeroRecord
      BY <1>1, <1>3 DEF FreeRecordsZero
    <2>2. QED
      BY <1>3, <2>1 DEF ZeroRecord, NoHeader
  <1>4. QED
    BY <1>2, <1>3

LEMMA FindsAre == Range(Finds) = {"FIND_BASE", "FIND_TOKEN_ADDRESS", "FIND_TOKEN_ADDRESS_ID"}
  <1>1. DOMAIN Finds = 1..3
    BY DEF Finds
  <1>2. QED
    BY <1>1 DEF Finds, Range

\* The steps that leave something to say of what is shown.
LEMMA WhatRuns ==
  ASSUME [ReaderNext]_readerVars
  PROVE  \/ UNCHANGED readerVars
         \/ run' = NoRun
         \/ run'.operation \in {"INITIALIZE_DRIVE", "TOTAL", "ENDED", "ERROR"}
         \/ Dump
         \/ \E options \in OptionLists, index \in 1..MaxBalances :
              FindIndex(options, index)
         \/ \E options \in OptionLists, params \in Params, operation \in Range(Finds) :
              /\ Find(options, operation, params)
              /\ Len(params) > 1 => operation # "FIND_BASE"
  <1>1. CASE Read
    <2>1. PICK options \in OptionLists, named \in BOOLEAN, params \in Params :
            \/ Initialize
            \/ Dump
            \/ Total
            \/ \E index \in 1..MaxBalances : FindIndex(options, index)
            \/ /\ Operation(options, named, params) \in Range(Finds)
               /\ Find(options, Operation(options, named, params), params)
            \/ \E operation \in {"ENDED", "ERROR"} :
                 Prints(operation, <<>>, 0,
                        IF operation = "ERROR" THEN Failed ELSE NoOutput)
      BY <1>1 DEF Read
    <2> DEFINE sought == Operation(options, named, params)
    <2>2. Initialize \/ Total => run'.operation \in {"INITIALIZE_DRIVE", "TOTAL"}
      BY DEF Initialize, Total, Prints
    <2>3. ASSUME NEW operation \in {"ENDED", "ERROR"}, NEW output,
                 Prints(operation, <<>>, 0, output)
          PROVE  run'.operation \in {"ENDED", "ERROR"}
      BY <2>3 DEF Prints
    <2>4. ASSUME sought \in Range(Finds), Len(params) > 1
          PROVE  sought # "FIND_BASE"
      <3>1. params # <<>> /\ sought \notin {"ENDED", "ERROR"}
        BY <2>4, FindsAre
      <3>2. Len(params) \in DOMAIN Finds /\ sought = Finds[Len(params)]
        BY <2>4, <3>1 DEF Operation
      <3>3. QED
        BY <2>4, <3>2 DEF Finds
    <2> HIDE DEF sought
    <2>5. CASE \E operation \in {"ENDED", "ERROR"} :
                 Prints(operation, <<>>, 0,
                        IF operation = "ERROR" THEN Failed ELSE NoOutput)
      BY <2>5, <2>3
    <2>6. CASE sought \in Range(Finds) /\ Find(options, sought, params)
      BY <2>6, <2>4
    <2>7. QED
      BY <2>1, <2>2, <2>5, <2>6 DEF sought
  <1>2. QED
    BY <1>1 DEF ReaderNext, Exit, LedgerCall

LEMMA ShownKinds ==
  ASSUME NEW options, NEW index
  PROVE  /\ Shown(options, index).kind \in {"record", "proof", "machine_proof"}
         /\ Shown(options, index).index = index
         /\ Shown(options, index).records = <<table.balances[index]>>
         /\ Failed.kind = "error"
  BY DEF Shown, Output, Failed

LEMMA IndexStep ==
  ASSUME LedgerInv, IndexShowsRecordsInUse, [ReaderNext]_readerVars
  PROVE  IndexShowsRecordsInUse'
  <1>1. CASE UNCHANGED readerVars
    BY <1>1 DEF readerVars, vars, ledger, IndexShowsRecordsInUse, Shows
  <1>2. CASE run' = NoRun
    <2>1. (run = NoRun => IndexShowsRecordsInUse)'
      BY NothingShown, PTL
    <2>2. QED
      BY <1>2, <2>1
  <1>3. ASSUME NEW options \in OptionLists, NEW index \in 1..MaxBalances, FindIndex(options, index)
        PROVE  IndexShowsRecordsInUse'
    <2>1. /\ run'.index = index
          /\ run'.output = IF table.balances[index].header.type = "ID" THEN Failed
                           ELSE Shown(options, index)
          /\ table' = table
      BY <1>3 DEF FindIndex, Prints, vars, ledger
    <2>2. table.balances[index].header.type # "ID" <=> index <= Len(table.last_balances)
      BY UsedIsTyped
    <2>3. Shows' <=> table.balances[index].header.type # "ID"
      BY <2>1, ShownKinds DEF Shows
    <2>4. QED
      BY <2>1, <2>2, <2>3 DEF IndexShowsRecordsInUse
  <1>4. CASE run'.operation # "FIND_INDEX"
    BY <1>4 DEF IndexShowsRecordsInUse
  <1>5. Dump => run'.operation # "FIND_INDEX"
    BY DEF Dump, Prints
  <1>6. ASSUME NEW options \in OptionLists, NEW params \in Params,
               NEW operation \in Range(Finds), Find(options, operation, params)
        PROVE  run'.operation # "FIND_INDEX"
    <2>1. \A output : Prints(operation, params, 0, output) => run'.operation = operation
      BY DEF Prints
    <2>2. run'.operation = operation
      BY <1>6, <2>1 DEF Find
    <2>3. QED
      BY <2>2, FindsAre
  <1>7. QED
    BY <1>1, <1>2, <1>3, <1>4, <1>5, <1>6, WhatRuns

\* By index just the records in use are shown, although only the type is looked at.
THEOREM IndexHolds == ReaderSpec => []IndexShowsRecordsInUse
  <1>1. ReaderInit => IndexShowsRecordsInUse
    BY NothingShown DEF ReaderInit
  <1>2. QED
    BY <1>1, IndexStep, ReaderInvariance, PTL DEF ReaderSpec

-----------------------------------------------------------------------------
(* What a search finds. *)

LEMMA AssetFound ==
  ASSUME LedgerInv, NEW operation \in Range(Finds), NEW params,
         NEW a \in AssetsFound(operation, params)
  PROVE  /\ a \in Assets
         /\ operation # "FIND_BASE" => lassid_to_asset[a].token_address = params[2]
  <1>1. CASE operation = "FIND_BASE"
    BY <1>1 DEF AssetsFound
  <1>2. ASSUME NEW type, NEW token_id,
               a \in FoundByToken(AssetKey(type, params[2], token_id))
        PROVE  a \in Assets /\ lassid_to_asset[a].token_address = params[2]
    <2> DEFINE key == AssetKey(type, params[2], token_id)
    <2>1. key[2] = params[2]
      BY DEF AssetKey
    <2>2. a \in Assets /\ KeyOfAsset(a) = key
      BY <1>2 DEF FoundByToken, LedgerInv, IInv, AssetsOK, AssetKeysMatch
    <2>3. KeyOfAsset(a)[2] = lassid_to_asset[a].token_address
      BY DEF KeyOfAsset, AssetKey
    <2>4. QED
      BY <2>1, <2>2, <2>3
  <1>3. CASE operation = "FIND_TOKEN_ADDRESS"
    <2>1. a \in FoundByToken(AssetKey("TOKEN_ADDRESS", params[2], Zero))
      BY <1>3 DEF AssetsFound
    <2>2. QED
      BY <1>2, <2>1
  <1>4. CASE operation = "FIND_TOKEN_ADDRESS_ID"
    <2>1. \E token_id :
            a \in FoundByToken(AssetKey("TOKEN_ADDRESS_ID", params[2], token_id))
      BY <1>4 DEF AssetsFound
    <2>2. QED
      BY <1>2, <2>1
  <1>5. QED
    BY <1>1, <1>3, <1>4, FindsAre

LEMMA AccountFound ==
  ASSUME LedgerInv, NEW owner, NEW u \in AccountsFound(owner)
  PROVE  u \in Accounts /\ laccid_to_account[u].account_id = owner
  BY DEF AccountsFound, LedgerInv, IInv, AccountsOK, AccountKeysMatch

\* The wallet's balance that a search for the base asset, or for a token without ids,
\* is for.
Sought(operation, params, a, u) ==
  /\ operation \in {"FIND_BASE", "FIND_TOKEN_ADDRESS"}
  /\ laccid_to_account[u] = [type |-> "WALLET_ADDRESS", account_id |-> params[1]]
  /\ IF operation = "FIND_BASE" THEN lassid_to_asset[a].type = "BASE"
     ELSE /\ lassid_to_asset[a].type = "TOKEN_ADDRESS"
          /\ lassid_to_asset[a].token_address = params[2]

\* Only the pair that is sought is found, and the look-ups cannot miss it.
LEMMA NoneMissed ==
  ASSUME LedgerInv, NEW operation, NEW params, NEW a \in Assets, NEW u \in Accounts,
         Sought(operation, params, a, u)
  PROVE  /\ AssetsFound(operation, params) = {a}
         /\ AccountsFound(params[1]) = {u}
         /\ ~MayMiss(operation)
  <1>1. AccountsFound(params[1]) = {u}
    BY DEF Sought, AccountsFound, LedgerInv, IInv, AccountsOK, AccountKeysMatch,
           HasAccountKey
  <1>2. CASE operation = "FIND_BASE"
    <2>1. base_asset_id_defined /\ a = base_asset_id
      BY <1>2 DEF Sought, LedgerInv, IInv, AssetsOK, BaseIsUnique
    <2>2. QED
      BY <1>1, <1>2, <2>1 DEF AssetsFound, BaseIds, MayMiss
  <1>3. CASE operation = "FIND_TOKEN_ADDRESS"
    <2> DEFINE key == AssetKey("TOKEN_ADDRESS", params[2], Zero)
    <2>1. /\ lassid_to_asset[a].type = "TOKEN_ADDRESS"
          /\ lassid_to_asset[a].token_address = params[2]
      BY <1>3 DEF Sought
    <2>2. KeyOfAsset(a) = key /\ HasToken("TOKEN_ADDRESS")
      BY <2>1 DEF KeyOfAsset, AssetKey, HasToken, HasTokenId
    <2>3. key \in DOMAIN asset_to_lassid /\ asset_to_lassid[key] = a
      BY <2>1, <2>2 DEF LedgerInv, IInv, AssetsOK, AssetKeysMatch
    <2>4. QED
      BY <1>1, <1>3, <2>3 DEF AssetsFound, FoundByToken, MayMiss
  <1>4. QED
    BY <1>2, <1>3 DEF Sought

\* A live pair's record says what the registry and the ledger say.
LEMMA RecordOfPair ==
  ASSUME LedgerInv, NEW a \in Assets, NEW u \in Accounts, HasRecord(a, u),
         NEW i, i = At(table, <<a, u>>)
  PROVE  /\ i \in 1..Len(table.last_balances)
         /\ table.balances[i] = [header |-> HeaderFor(a, u), amount |-> Balance(a, u)]
         /\ table.last_balances[i] = <<a, u>>
  <1>1. Whole(table)
    BY WellFormedIsWhole DEF LedgerInv, IInv, TableFits, Fits
  <1>2. /\ i \in 1..Len(table.last_balances)
        /\ Len(table.last_balances) \in Nat /\ MaxBalances \in Nat
        /\ Len(table.last_balances) <= MaxBalances
    BY <1>1, WholeFacts DEF HasRecord
  <1>3. table.account_asset_balance[<<a, u>>].type = "WITHDRAWABLE"
    BY <1>1, WholeFacts DEF HasRecord, IsVirtual
  <1>4. table.last_balances[i] = <<a, u>>
    BY <1>1, <1>3 DEF Whole, Packed, ListMatchesMap, HasRecord
  <1>5. /\ EntryFits(table, <<a, u>>, lassid_to_asset[a], laccid_to_account[u])
        /\ ~IsVirtual(table, <<a, u>>)
    BY DEF HasRecord, LedgerInv, IInv, TableFits, Fits, Assets
  <1>6. table.balances[i].header = HeaderFor(a, u)
    BY <1>5, ProvedIsTyped DEF HeaderOf, HeaderFor
  <1>7. table.balances[i].amount = Balance(a, u)
    BY DEF HasRecord, Balance, BalanceOf
  <1>8. table.balances[i] \in [header : Header, amount : Amounts]
    <2>1. i \in 1..MaxBalances
      BY <1>2
    <2>2. QED
      BY <1>1, <2>1 DEF Whole, TableType
  <1>9. QED
    BY <1>2, <1>4, <1>6, <1>7, <1>8

\* A search that shows a record, and one that fails.
LEMMA FindStep ==
  ASSUME LedgerInv, NEW options, NEW params, NEW operation \in Range(Finds),
         Find(options, operation, params),
         Len(params) > 1 => operation # "FIND_BASE"
  PROVE  SearchFindsTheRecord'
  <1> DEFINE assets   == AssetsFound(operation, params)
             accounts == AccountsFound(params[1])
  <1>1. UNCHANGED <<lassid_to_asset, laccid_to_account, table>>
    BY DEF Find, vars, ledger, assetVars, accountVars
  <1>2. ASSUME NEW a \in assets, NEW u \in accounts, HasRecord(a, u),
               Prints(operation, params, 0, Shown(options, At(table, <<a, u>>)))
        PROVE  SearchFindsTheRecord'
    <2> DEFINE i == At(table, <<a, u>>)
    <2>1. /\ run'.operation = operation /\ run'.params = params
          /\ run'.output = Shown(options, i)
      BY <1>2 DEF Prints
    <2>2. /\ a \in Assets /\ u \in Accounts
          /\ operation # "FIND_BASE" => lassid_to_asset[a].token_address = params[2]
          /\ laccid_to_account[u].account_id = params[1]
      BY <1>2, AssetFound, AccountFound
    <2> HIDE DEF i
    <2>3. /\ table.balances[i] = [header |-> HeaderFor(a, u), amount |-> Balance(a, u)]
          /\ table.last_balances[i] = <<a, u>>
      BY <1>2, <2>2, RecordOfPair DEF i
    <2>4. run'.output.index = i /\ TheRecord' = table.balances[i] /\ run'.output.kind # "error"
      BY <2>1, ShownKinds DEF TheRecord
    <2>5. FoundIsTheOwners'
      BY <1>1, <2>1, <2>2, <2>3, <2>4
         DEF FoundIsTheOwners, Assets, Accounts, HeaderFor, Balance
    <2>6. MissingHasNone'
      BY <2>4 DEF MissingHasNone
    <2>7. QED
      BY <2>5, <2>6 DEF SearchFindsTheRecord
  <1>3. ASSUME \/ assets = {} \/ accounts = {} \/ MayMiss(operation)
               \/ \E a \in assets, u \in accounts : ~HasRecord(a, u),
               Prints(operation, params, 0, Failed)
        PROVE  SearchFindsTheRecord'
    <2>1. /\ run'.operation = operation /\ run'.params = params
          /\ run'.output.kind = "error"
      BY <1>3, ShownKinds DEF Prints
    <2>2. FoundIsTheOwners'
      BY <2>1 DEF FoundIsTheOwners, Shows
    <2>3. ASSUME NEW a \in Assets, NEW u \in Accounts, Sought(operation, params, a, u)
          PROVE  ~HasRecord(a, u)
      <3>1. assets = {a} /\ accounts = {u} /\ ~MayMiss(operation)
        BY <2>3, NoneMissed
      <3>2. QED
        BY <1>3, <3>1
    <2>4. MissingHasNone'
      BY <1>1, <2>1, <2>3 DEF MissingHasNone, Sought, Assets, Accounts, HasRecord
    <2>5. QED
      BY <2>2, <2>4 DEF SearchFindsTheRecord
  <1>4. QED
    BY <1>2, <1>3 DEF Find

LEMMA SearchStep ==
  ASSUME LedgerInv, SearchFindsTheRecord, [ReaderNext]_readerVars
  PROVE  SearchFindsTheRecord'
  <1>1. CASE UNCHANGED readerVars
    BY <1>1 DEF readerVars, vars, ledger, assetVars, accountVars, SearchFindsTheRecord,
                FoundIsTheOwners, MissingHasNone, Found, Shows, TheRecord, Assets,
                Accounts, HeaderFor, Balance, HasRecord
  <1>2. CASE run' = NoRun
    <2>1. (run = NoRun => SearchFindsTheRecord)'
      BY NothingShown, PTL
    <2>2. QED
      BY <1>2, <2>1
  <1>3. ASSUME run'.operation \notin Range(Finds)
        PROVE  SearchFindsTheRecord'
    BY <1>3, FindsAre DEF SearchFindsTheRecord, FoundIsTheOwners, MissingHasNone, Found
  <1>4. \A options, index : Dump \/ FindIndex(options, index) =>
          run'.operation \notin Range(Finds)
    BY FindsAre DEF Dump, FindIndex, Prints
  <1>5. QED
    BY <1>1, <1>2, <1>3, <1>4, FindsAre, FindStep, WhatRuns

\* A search shows its owner's record and balance, and no wallet's balance of the base
\* asset, or of a token without ids, is missed.
THEOREM SearchHolds == ReaderSpec => []SearchFindsTheRecord
  <1>1. ReaderInit => SearchFindsTheRecord
    BY NothingShown DEF ReaderInit
  <1>2. QED
    BY <1>1, SearchStep, ReaderInvariance, PTL DEF ReaderSpec

-----------------------------------------------------------------------------
(* What a dump adds up to. *)

\* Two live pairs with one header are one pair.
LEMMA HeaderNames ==
  ASSUME LedgerInv, NEW a \in Assets, NEW b \in Assets, NEW u \in Accounts,
         NEW w \in Accounts, IsWithdrawable(a, u), IsWithdrawable(b, w),
         HeaderFor(a, u) = HeaderFor(b, w)
  PROVE  a = b /\ u = w
  <1>1. /\ lassid_to_asset[a].type = lassid_to_asset[b].type
        /\ lassid_to_asset[a].token_address = lassid_to_asset[b].token_address
        /\ lassid_to_asset[a].token_id = lassid_to_asset[b].token_id
        /\ laccid_to_account[u].account_id = laccid_to_account[w].account_id
        /\ laccid_to_account[u].type = "WALLET_ADDRESS"
        /\ laccid_to_account[w].type = "WALLET_ADDRESS"
        /\ lassid_to_asset[a].type # "ID"
    BY DEF HeaderFor, IsWithdrawable
  <1>2. u = w
    BY <1>1 DEF LedgerInv, IInv, AccountsOK, AccountKeysMatch, HasAccountKey
  <1>3. CASE lassid_to_asset[a].type = "BASE"
    BY <1>1, <1>2, <1>3 DEF LedgerInv, IInv, AssetsOK, BaseIsUnique
  <1>4. CASE lassid_to_asset[a].type # "BASE"
    <2>1. lassid_to_asset[a].type \in AssetTypes
      BY DEF LedgerInv, IInv, AssetsOK, AssetRecord
    <2>2. HasToken(lassid_to_asset[a].type)
      BY <1>1, <1>4, <2>1 DEF AssetTypes, HasToken, HasTokenId
    <2>3. KeyOfAsset(a) = KeyOfAsset(b)
      BY <1>1 DEF KeyOfAsset
    <2>4. asset_to_lassid[KeyOfAsset(a)] = a /\ asset_to_lassid[KeyOfAsset(b)] = b
      BY <1>1, <2>2 DEF LedgerInv, IInv, AssetsOK, AssetKeysMatch
    <2>5. QED
      BY <1>2, <2>3, <2>4
  <1>5. QED
    BY <1>3, <1>4

\* The sum over the records under one header: at most one of them counts.
LEMMA RecordsAddUp ==
  ASSUME LedgerInv, NEW a \in Assets, NEW u \in Accounts, IsWithdrawable(a, u),
         NEW amounts, NEW under,
         under = {i \in 1..Len(table.last_balances) :
                    table.balances[i].header = HeaderFor(a, u)},
         \A i \in under : amounts[i] = table.balances[i].amount
  PROVE  Balance(a, u) = SumFunctionOnSet(amounts, under)
  <1> DEFINE used == 1..Len(table.last_balances)
  <1>1. IsFiniteSet(under)
    <2>1. Len(table.last_balances) \in Nat
      BY WellFormedIsWhole, WholeFacts DEF LedgerInv, IInv, TableFits, Fits
    <2>2. IsFiniteSet(used) /\ under \subseteq used
      BY <2>1, FS_Interval
    <2>3. QED
      BY <2>2, FS_Subset
  <1>2. ASSUME NEW i \in under
        PROVE  \/ HasRecord(a, u) /\ i = At(table, <<a, u>>)
               \/ amounts[i] = 0
    <2>1. PICK b \in AssetIds, w \in Accounts :
            /\ HasRecord(b, w) /\ At(table, <<b, w>>) = i
            /\ table.balances[i].amount = Balance(b, w)
            /\ b \in Assets => IsWithdrawable(b, w)
                                 /\ table.balances[i].header = HeaderFor(b, w)
            /\ b \notin Assets => Balance(b, w) = 0
      BY RecordInUse
    <2>2. b \in Assets => a = b /\ u = w
      BY <2>1, HeaderNames
    <2>3. QED
      BY <2>1, <2>2
  <1>3. CASE HasRecord(a, u)
    <2> DEFINE i == At(table, <<a, u>>)
    <2>1. /\ i \in used
          /\ table.balances[i] = [header |-> HeaderFor(a, u), amount |-> Balance(a, u)]
      BY <1>3, RecordOfPair
    <2> HIDE DEF i
    <2>2. i \in under /\ amounts[i] = Balance(a, u)
      BY <2>1
    <2>3. \A j \in under : j # i => amounts[j] = 0
      BY <1>2 DEF i
    <2>4. Balance(a, u) \in Int
      BY AmountFacts DEF LedgerInv
    <2>5. SumFunctionOnSet(amounts, under) =
            amounts[i] + SumFunctionOnSet(amounts, under \ {i})
      BY <1>1, <2>2, <2>3, <2>4, SumTake
    <2>6. IsFiniteSet(under \ {i}) /\ \A j \in under \ {i} : amounts[j] = 0
      BY <1>1, <2>3, FS_Subset
    <2>7. SumFunctionOnSet(amounts, under \ {i}) = 0
      BY <2>6, SumZero
    <2>8. QED
      BY <2>2, <2>4, <2>5, <2>7
  <1>4. CASE ~HasRecord(a, u)
    <2>1. <<a, u>> \notin Entries(table)
      BY <1>4 DEF HasRecord, IsWithdrawable, LedgerInv, IInv, TableFits, Fits,
                  EntryFits, Proved, Assets
    <2>2. Balance(a, u) = 0
      BY <2>1 DEF Balance, BalanceOf
    <2>3. SumFunctionOnSet(amounts, under) = 0
      BY <1>1, <1>2, <1>4, SumZero
    <2>4. QED
      BY <2>2, <2>3
  <1>5. QED
    BY <1>3, <1>4

LEMMA DumpStep ==
  ASSUME LedgerInv, DumpAddsUp, [ReaderNext]_readerVars
  PROVE  DumpAddsUp'
  <1>1. CASE UNCHANGED readerVars
    BY <1>1 DEF readerVars, vars, ledger, assetVars, accountVars, DumpAddsUp, Assets,
                Accounts, IsWithdrawable, HeaderFor, Balance
  <1>2. CASE run' = NoRun
    <2>1. (run = NoRun => DumpAddsUp)'
      BY NothingShown, PTL
    <2>2. QED
      BY <1>2, <2>1
  <1>3. CASE run'.operation # "DUMP"
    BY <1>3 DEF DumpAddsUp
  <1>4. CASE Dump
    <2> DEFINE list  == run'.output.records
               n     == Len(table.last_balances)
    <2>1. /\ list = SubSeq(table.balances, 1, n)
          /\ UNCHANGED <<lassid_to_asset, laccid_to_account, table>>
      BY <1>4 DEF Dump, Prints, Output, vars, ledger, assetVars, accountVars
    <2>2. DOMAIN list = 1..n /\ \A i \in 1..n : list[i] = table.balances[i]
      <3>1. /\ n \in Nat /\ MaxBalances \in Nat /\ n <= MaxBalances
            /\ table.balances \in [1..MaxBalances -> [header : Header, amount : Amounts]]
        BY WellFormedIsWhole, WholeFacts
           DEF LedgerInv, IInv, TableFits, Fits, WellFormed, TableType
      <3> HIDE DEF n
      <3>2. \A i \in 1..n : table.balances[i] \in [header : Header, amount : Amounts]
        BY <3>1
      <3>3. /\ list \in Seq([header : Header, amount : Amounts])
            /\ Len(list) = n
            /\ \A i \in 1..n : list[i] = table.balances[i]
        BY <2>1, <3>1, <3>2, SubSeqProperties
      <3>4. QED
        BY <3>3, LenProperties
    <2> HIDE DEF list, n
    <2>3. ASSUME NEW a \in Assets, NEW u \in Accounts, IsWithdrawable(a, u)
          PROVE  Balance(a, u) = AmountUnder(HeaderFor(a, u), list)
      <3> DEFINE amounts == [i \in DOMAIN list |-> list[i].amount]
                 under   == {i \in DOMAIN list : list[i].header = HeaderFor(a, u)}
      <3>1. /\ under = {i \in 1..Len(table.last_balances) :
                          table.balances[i].header = HeaderFor(a, u)}
            /\ \A i \in under : amounts[i] = table.balances[i].amount
        BY <2>2 DEF n
      <3> HIDE DEF amounts, under
      <3>2. Balance(a, u) = SumFunctionOnSet(amounts, under)
        BY <2>3, <3>1, RecordsAddUp
      <3>3. QED
        BY <3>2 DEF amounts, under, AmountUnder
    <2>4. QED
      BY <2>1, <2>3 DEF DumpAddsUp, list, Assets, Accounts, IsWithdrawable, HeaderFor,
                        Balance
  <1>5. \A options, index : FindIndex(options, index) => run'.operation # "DUMP"
    BY DEF FindIndex, Prints
  <1>6. ASSUME NEW options \in OptionLists, NEW params \in Params,
               NEW operation \in Range(Finds), Find(options, operation, params)
        PROVE  run'.operation # "DUMP"
    <2>1. \A output : Prints(operation, params, 0, output) => run'.operation = operation
      BY DEF Prints
    <2>2. run'.operation = operation
      BY <1>6, <2>1 DEF Find
    <2>3. QED
      BY <2>2, FindsAre
  <1>7. QED
    BY <1>1, <1>2, <1>3, <1>4, <1>5, <1>6, WhatRuns

\* A list adds up to the balances, although a removed asset may have left a record
\* under the header of the one that took its token: nothing is left in it.
THEOREM DumpHolds == ReaderSpec => []DumpAddsUp
  <1>1. ReaderInit => DumpAddsUp
    BY NothingShown DEF ReaderInit
  <1>2. QED
    BY <1>1, DumpStep, ReaderInvariance, PTL DEF ReaderSpec
=============================================================================
