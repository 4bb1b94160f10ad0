CONSTANTS
  alice = alice
  bob = bob
  vault = vault
  token = token
  id1 = id1
  Zero = Zero
  MaxAssets = 3
  MaxAccounts = 2
  MaxBalances = 2
  MaxAmount = 2
  MaxBatch = 2
  Wallets <- TwoWallets
  InternalIds <- OneVault
  Tokens <- OneToken
  TokenIds <- OneTokenId
  Kinds = {"ETHER", "ERC721", "ERC1155_BATCH"}
  AskedAssets = {}
  AskedAccounts = {}
SYMMETRY UserSymmetry
SPECIFICATION AppSpec
INVARIANTS ConservedAtRest
PROPERTY RefinesBank
