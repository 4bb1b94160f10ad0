CONSTANTS
  alice = alice
  vault = vault
  token = token
  tokenId = tokenId
  Zero = Zero
  MaxAssets = 2
  MaxAccounts = 2
  MaxAmount = 2
  Wallets <- OneWallet
  InternalIds <- OneVault
  Tokens <- OneToken
  TokenIds <- OneTokenId
  AskedAssets = {"ID", "BASE", "TOKEN_ADDRESS_ID", "TOKEN_ADDRESS_ID_AMOUNT"}
  AskedAccounts = {"ID", "ACCOUNT_ID"}
SPECIFICATION Spec
INVARIANTS Registry NoOrphanBalance
PROPERTY RefinesLedger
