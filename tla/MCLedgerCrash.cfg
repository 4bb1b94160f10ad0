CONSTANTS
  alice = alice
  token = token
  tokenId = tokenId
  Zero = Zero
  MaxAssets = 2
  MaxAccounts = 2
  MaxAmount = 2
  MaxBalances = 3
  Wallets <- MCWallets
  InternalIds <- None
  Tokens <- MCTokens
  TokenIds <- MCTokenIds
  Withdrawable <- MCWithdrawable
  HeaderOf <- MCHeaderOf
SPECIFICATION CrashSpec
INVARIANTS CallsEndWhole OldOrNew SupplyCoversStopped
