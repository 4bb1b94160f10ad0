CONSTANTS
  alice = alice
  bob = bob
  token = token
  tokenId = tokenId
  Zero = Zero
  MaxAssets = 2
  MaxAccounts = 2
  MaxBalances = 4
  MaxAmount = 1
  Wallets <- TwoWallets
  InternalIds <- NoIds
  Tokens <- OneToken
  TokenIds <- OneId
  AskedAssets = {"BASE", "TOKEN_ADDRESS", "TOKEN_ADDRESS_ID"}
  AskedAccounts = {"ID", "WALLET_ADDRESS"}
  Ids <- MCIds
  OptionLists <- MCOptionLists
SPECIFICATION ReaderSpec
INVARIANTS SearchFindsTheRecord IndexShowsRecordsInUse DumpAddsUp
PROPERTY RefinesLedger
