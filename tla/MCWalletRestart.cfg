CONSTANTS
  alice = alice
  token = token
  id1 = id1
  Zero = Zero
  MaxAssets = 2
  MaxAccounts = 1
  MaxBalances = 2
  MaxAmount = 1
  MaxBatch = 0
  Wallets <- OneWallet
  InternalIds <- NoIds
  Tokens <- OneToken
  TokenIds <- OneTokenId
  Kinds = {"ETHER", "ERC20"}
  AskedAssets = {}
  AskedAccounts = {}
SPECIFICATION RestartSpec
INVARIANT StartFindsEther
