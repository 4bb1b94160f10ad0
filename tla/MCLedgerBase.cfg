CONSTANTS
  alice = alice
  token = token
  tokenId = tokenId
  Zero = Zero
  MaxAssets = 2
  MaxAccounts = 1
  MaxBalances = 1
  MaxAmount = 1
  Wallets <- OneWallet
  InternalIds <- NoIds
  Tokens <- OneToken
  TokenIds <- OneTokenId
  AskedAssets = {"BASE"}
  AskedAccounts = {"WALLET_ADDRESS"}
SPECIFICATION Spec
PROPERTIES MissingBaseIsCreated
