CONSTANTS
  alice = alice
  token = token
  tokenId = tokenId
  Zero = Zero
  MaxAssets = 2
  MaxAccounts = 2
  MaxBalances = 2
  MaxAmount = 2
  Wallets <- OneWallet
  InternalIds <- NoIds
  Tokens <- OneToken
  TokenIds <- OneTokenId
  AskedAssets = {"BASE", "TOKEN_ADDRESS_ID", "TOKEN_ADDRESS_ID_AMOUNT"}
  AskedAccounts = {"ID", "WALLET_ADDRESS", "ACCOUNT_ID"}
SPECIFICATION Spec
INVARIANTS Registry TableOK RecordsMatchRegistry SupplyCoversBalances TokenIdIsSingle
PROPERTIES IdsNeverReused FailureChangesNothing
