---------------------------- MODULE TreeAndProof ----------------------------
(***************************************************************************)
(* complete_merkle_tree and the hash_tree_proofs of it: trees are built,   *)
(* and then proofs of them are taken, checked and sliced.  What get_proof  *)
(* reads is get_node_hash of the tree, which is whole only when the loops  *)
(* of the constructor or of push_back have ended.                          *)
(*                                                                         *)
(* Two trees come into it: the one that proofs are taken from, and the one *)
(* it has become since, by pushes or by building the tree of the same      *)
(* memory again after a record was written.                                *)
(***************************************************************************)
EXTENDS MerkleTree, HashTreeProof

\* The trees that were read: node, then later.
VARIABLE read

vars == <<pristine, tree, next_size, result, node, later, call, proof, sliced,
          log2_size, hash, returned, read>>

\* get_node_hash of every address.
WholeTree == [l \in Levels |-> [i \in 0..(Capacity(l) - 1) |-> NodeHash(l, i)]]

NoTree == [l \in Levels |-> [i \in 0..(Capacity(l) - 1) |-> NoHash]]

Init == TreeInit /\ node = NoTree /\ later = NoTree /\ NoCallYet /\ read = {}

\* The memory is written in one leaf (the bound: once) and its tree built again.
Rebuild ==
  \E i \in DOMAIN leaves, hash_i \in LeafHashes :
    /\ AtRest
    /\ WholeTree = node
    /\ pristine' = PristineWord
    /\ tree' = TreeOf([leaves EXCEPT ![i] = hash_i])
    /\ next_size' = Log2Leaf + 1
    /\ result' = "SUCCESS"

ChangeTree ==
  /\ read # {"node", "later"}
  /\ \/ TreeNext
     \/ read = {"node"} /\ Rebuild
  /\ UNCHANGED <<proofVars, read>>

ReadTree ==
  /\ AtRest
  /\ \/ read = {} /\ node' = WholeTree /\ UNCHANGED later /\ read' = {"node"}
     \/ read = {"node"} /\ later' = WholeTree /\ UNCHANGED node /\ read' = {"node", "later"}
  /\ UNCHANGED <<treeVars, call, proof, sliced, log2_size, hash, returned>>

UseProofs == read = {"node", "later"} /\ ProofNext /\ UNCHANGED <<treeVars, read>>

Next == ChangeTree \/ ReadTree \/ UseProofs

Spec == Init /\ [][Next]_vars
=============================================================================
