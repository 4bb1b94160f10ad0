--------------------------- MODULE MCTreeAndProof ---------------------------
(***************************************************************************)
(* Trees of up to four leaves of two hashes, every leaf's address and one  *)
(* past the end.                                                           *)
(***************************************************************************)
EXTENDS TreeAndProof

ReferenceTree(given) ==
  [l \in Levels |-> [i \in 0..(Capacity(l) - 1) |-> ReferenceNodes(given)[l][i]]]

AllTrees == {ReferenceTree(given) : given \in Given}

AllAddresses ==
  {[l \in Levels |-> i \div 2^(l - Log2Leaf)] : i \in 0..Capacity(Log2Leaf)}
=============================================================================
