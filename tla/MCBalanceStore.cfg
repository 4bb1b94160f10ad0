CONSTANTS
  alice = alice
  bob = bob
  carol = carol
  token = token
  tokenId = tokenId
  Zero = Zero
  MaxAssets = 2
  MaxAccounts = 3
  MaxAmount = 2
  MaxBalances = 3
  INIT_BALANCE = 2
  Wallets <- MCWallets
  InternalIds <- NoIds
  Tokens <- MCTokens
  TokenIds <- MCTokenIds
  Withdrawable <- MCWithdrawable
  HeaderOf <- MCHeaderOf
SPECIFICATION GrowthSpec
INVARIANTS StorePacked RecordsDescribe WithinReserveReadBack
PROPERTY RefinesMap
