CONSTANTS
  Word = 16
  MinMemLength = 2
  PerItem = 2
  Files <- AllFiles
  Length <- Lengths
  ReadOnly = {"read_only"}
  Offsets = {0, 4}
  MemLengths = {1, 8, 12}
  Limits = {0, 2}
SPECIFICATION OpenSpec
INVARIANTS MagicTellsLiveLedgers LedgerHasItsMemory FaultsAreForeseen
