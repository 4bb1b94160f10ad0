------------------------------ MODULE TreeSizes ------------------------------
(***************************************************************************)
(* What complete_merkle_tree and hash_tree_proof share: levels, named by   *)
(* the log2 of the size of the memory that a node of the level spans, and  *)
(* the hash of two hashes (src/misc/i-hasher.h).  The hash of a            *)
(* concatenation is the pair: Keccak without collisions.                   *)
(***************************************************************************)
EXTENDS Integers

CONSTANTS Log2Root, Log2Leaf   \* log2_root_size, log2_leaf_size

Levels == Log2Leaf..Log2Root

get_concat_hash(left, right) == <<left, right>>
=============================================================================
