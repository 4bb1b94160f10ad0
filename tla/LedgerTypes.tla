----------------------------- MODULE LedgerTypes -----------------------------
(***************************************************************************)
(* The types both ledgers of src/src/ledger_impl.cpp are built from        *)
(* (include/libcma/ledger.h, ledger_impl.h): ids, amounts, assets and      *)
(* accounts, and the byte strings they are looked up by.                   *)
(***************************************************************************)
EXTENDS Integers, FiniteSets, SequencesExt

CONSTANTS
  MaxAssets,    \* asset ids that can ever be given out
  MaxAccounts,  \* account ids that can ever be given out
  MaxAmount,    \* the largest cma_amount_t, 2^256 - 1 in the code
  Wallets,      \* cma_abi_address_t values
  InternalIds,  \* 32-byte account ids that do not start with 12 zero bytes
  Tokens,       \* cma_token_address_t values
  TokenIds,     \* cma_token_id_t values
  Zero          \* the all-zero bytes of an unused field

ASSUME TypesAssumption ==
  /\ MaxAssets \in Nat /\ MaxAccounts \in Nat /\ MaxAmount \in Nat
  /\ Zero \notin Wallets \cup InternalIds \cup Tokens \cup TokenIds
  /\ InternalIds \cap Wallets = {}

AssetIds   == 0..(MaxAssets - 1)       \* cma_ledger_asset_id_t
AccountIds == 0..(MaxAccounts - 1)     \* cma_ledger_account_id_t
Amounts    == 0..MaxAmount             \* cma_amount_t

Key == AssetIds \X AccountIds          \* cma_map_key_t

AssetTypes == {"ID", "BASE", "TOKEN_ADDRESS", "TOKEN_ADDRESS_ID",
               "TOKEN_ADDRESS_ID_AMOUNT"}

AccountTypes == {"ID", "WALLET_ADDRESS", "ACCOUNT_ID"}

HasTokenId(type) == type \in {"TOKEN_ADDRESS_ID", "TOKEN_ADDRESS_ID_AMOUNT"}
HasToken(type)   == type = "TOKEN_ADDRESS" \/ HasTokenId(type)

\* Types that have an entry in account_to_laccid.
HasAccountKey(type) == type # "ID"

\* An address is the 32-byte id that has it after 12 zero bytes.
Bytes32 == Wallets \cup InternalIds

AssetRecord == [type: AssetTypes, token_address: Tokens \cup {Zero},
                token_id: TokenIds \cup {Zero}, supply: Amounts]

AccountRecord == [type: AccountTypes, account_id: Bytes32 \cup {Zero}]

Ops == {"FIND", "CREATE", "FIND_OR_CREATE", "FIND_AND_REMOVE"}

Errors == {"EINVAL", "INSUFFICIENT_FUNDS", "ACCOUNT_NOT_FOUND",
           "ASSET_NOT_FOUND", "SUPPLY_OVERFLOW", "BALANCE_OVERFLOW",
           "INSERTION_ERROR", "MAX_ASSETS_REACHED", "MAX_ACCOUNTS_REACHED",
           "MAX_BALANCES_REACHED", "ASSET_SUPPLY", "ACCOUNT_BALANCE"}

\* insert of a key that is not there, and erase, of a map.
Insert(map, key, value) ==
  [k \in {key} \cup DOMAIN map |-> IF k = key THEN value ELSE map[k]]

Erase(map, key) == Restrict(map, DOMAIN map \ {key})

\* asset_key: both kinds of token ids share one type byte.
AssetKey(type, token, token_id) ==
  IF HasTokenId(type) THEN <<"TOKEN_ADDRESS_ID", token, token_id>>
                      ELSE <<"TOKEN_ADDRESS", token, Zero>>

\* An ACCOUNT_ID given as bytes that start with 12 zeros is a wallet; given
\* in the account structure it stays an ACCOUNT_ID.
AccountTypeOf(type, bytes, as_struct) ==
  IF bytes \in Wallets /\ ~as_struct THEN "WALLET_ADDRESS" ELSE type
=============================================================================
