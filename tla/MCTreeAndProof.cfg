CONSTANTS
  NoHash = NoHash
  ZeroWord = zero
  Log2Root = 3
  Log2Leaf = 1
  Log2Word = 0
  LeafHashes = {a, b}
  Trees <- AllTrees
  Addresses <- AllAddresses
SPECIFICATION Spec
INVARIANTS NodesMatch RootIsReference VerifyDecides NewRootFits SliceIsValid
PROPERTY ProofsFit
