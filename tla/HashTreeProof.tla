---------------------------- MODULE HashTreeProof ----------------------------
(***************************************************************************)
(* hash_tree_proof (src/misc/hash-tree-proof.h), and get_proof of          *)
(* complete_merkle_tree that makes one: a target node of a tree with the   *)
(* hashes of the siblings on its way to the root.                          *)
(*                                                                         *)
(* An address is what it selects: the index, at each level, of the node    *)
(* that holds it (address >> log2_size).  Every loop over levels is a step *)
(* per level.  `node` is the tree proofs are taken from and `later` the    *)
(* same memory at another time; both are whole trees, as module MerkleTree *)
(* shows of complete_merkle_tree.                                          *)
(***************************************************************************)
EXTENDS TreeSizes

CONSTANTS
  Addresses,   \* leaf addresses asked for
  Trees,       \* trees: level -> index -> hash
  NoHash       \* machine_hash{}

IsOdd(i)   == i % 2 = 1
Sibling(i) == IF IsOdd(i) THEN i - 1 ELSE i + 1

\* An address of 2^Log2Root or more has an index above 0 at the root.
InTree(address) == address[Log2Root] = 0

\* Each node on the way up is made of the node below it and its sibling.
IsTree(t) ==
  \A l \in Log2Leaf..(Log2Root - 1) : \A address \in Addresses :
    LET i == address[l] IN
      InTree(address) =>
        t[l + 1][address[l + 1]] =
          IF IsOdd(i) THEN get_concat_hash(t[l][Sibling(i)], t[l][i])
                      ELSE get_concat_hash(t[l][i], t[l][Sibling(i)])

ASSUME ProofAssumption ==
  /\ Log2Root \in Nat /\ Log2Leaf \in Nat /\ Log2Leaf <= Log2Root
  /\ Addresses \subseteq [Levels -> Nat]
  /\ \A t \in Trees : IsTree(t)

VARIABLES
  node, later,
  call,             \* the function under way, or "none"
  proof,            \* the proof at hand: see ProofOf
  sliced,           \* the proof that slice is making
  log2_size, hash,  \* the loops' locals
  returned          \* what the last call returned or threw

proofVars == <<node, later, call, proof, sliced, log2_size, hash, returned>>

\* A proof as the constructor makes it: no hashes yet.
ProofOf(log2_root_size, log2_target_size, address) ==
  [log2_root_size |-> log2_root_size, log2_target_size |-> log2_target_size,
   address |-> address, target_hash |-> NoHash, root_hash |-> NoHash,
   sibling_hashes |-> [l \in log2_target_size..(log2_root_size - 1) |-> NoHash]]

NoCallYet ==
  /\ call = "none" /\ returned = "nothing"
  /\ \E address \in Addresses : proof = ProofOf(Log2Root, Log2Root, address)
  /\ sliced = proof
  /\ log2_size = Log2Root /\ hash = NoHash

ProofInit == node \in Trees /\ later \in Trees /\ NoCallYet

\* The call returns or throws, and its locals are gone.
End(value) ==
  /\ call' = "none" /\ returned' = value
  /\ sliced' = proof' /\ log2_size' = Log2Root
  /\ hash' = IF value = "hash" THEN hash ELSE NoHash
  /\ UNCHANGED <<node, later>>

Refuse(value) == call = "none" /\ UNCHANGED proof /\ End(value)

-----------------------------------------------------------------------------
(* get_proof of the tree `node`. *)

\* address == (address >> log2_size) << log2_size
IsAligned(address, size) ==
  \A l \in Levels : l < size => address[l] = 2 * address[l + 1]

ProofAllowed(address, size) ==
  size \in Levels /\ IsAligned(address, size) /\ InTree(address) /\ Log2Root > 0

GetProof(address, size) ==
  \/ ~ProofAllowed(address, size) /\ Refuse("out_of_range")
  \/ /\ call = "none"
     /\ ProofAllowed(address, size)
     /\ call' = "get_proof"
     /\ proof' = [ProofOf(Log2Root, size, address) EXCEPT
                    !.root_hash = node[Log2Root][0],
                    !.target_hash = node[size][address[size]]]
     /\ log2_size' = size
     /\ returned' = "nothing"
     /\ sliced' = proof' /\ hash' = NoHash
     /\ UNCHANGED <<node, later>>

\* Fault: the hash on the way instead of the one beside it.
OwnHash(l, i) == node[l][i]

SiblingHash(l, i) == node[l][Sibling(i)]

TakeSibling ==
  /\ call = "get_proof" /\ log2_size < Log2Root
  /\ proof' = [proof EXCEPT !.sibling_hashes =
                 [l \in DOMAIN proof.sibling_hashes |->
                    IF l = log2_size
                    THEN SiblingHash(l, proof.address[l])
                    ELSE proof.sibling_hashes[l]]]
  /\ log2_size' = log2_size + 1
  /\ UNCHANGED <<node, later, call, sliced, hash, returned>>

EndGetProof ==
  call = "get_proof" /\ log2_size = Log2Root /\ UNCHANGED proof /\ End("proof")

-----------------------------------------------------------------------------
(* verify and bubble_up. *)

\* Fault: the siblings always on the right.
AlwaysLeft(p, l, below) == get_concat_hash(below, p.sibling_hashes[l])

\* The hash of the parent of `below`, which is the node of size l on the path.
Climb(p, l, below) ==
  IF IsOdd(p.address[l]) THEN get_concat_hash(p.sibling_hashes[l], below)
                         ELSE get_concat_hash(below, p.sibling_hashes[l])

\* bubble_up: verify starts it from the target, a caller from a new hash.
StartBubbleUp(name, new_target_hash) ==
  /\ call = "none"
  /\ call' = name
  /\ log2_size' = proof.log2_target_size
  /\ hash' = new_target_hash
  /\ returned' = "nothing"
  /\ UNCHANGED <<node, later, proof, sliced>>

Verify == StartBubbleUp("verify", proof.target_hash)

ReplaceTarget ==
  /\ InTree(proof.address)
  /\ StartBubbleUp("bubble_up",
       later[proof.log2_target_size][proof.address[proof.log2_target_size]])

Bubbling == call \in {"verify", "bubble_up", "verify_slice"}

BubbleUp ==
  /\ Bubbling /\ log2_size < proof.log2_root_size
  /\ hash' = Climb(proof, log2_size, hash)
  /\ log2_size' = log2_size + 1
  /\ UNCHANGED <<node, later, call, proof, sliced, returned>>

EndBubbleUp ==
  /\ Bubbling /\ log2_size = proof.log2_root_size
  /\ UNCHANGED proof
  /\ \/ call = "verify" /\ End(IF hash = proof.root_hash THEN "valid" ELSE "invalid")
     \/ call = "bubble_up" /\ End("hash")
     \/ call = "verify_slice" /\ End(IF hash = proof.root_hash THEN "proof" ELSE "logic_error")

-----------------------------------------------------------------------------
(* slice: the part of the proof between two smaller sizes.  The proof that   *)
(* is returned takes the place of the one at hand.                           *)

SliceAllowed(root, target) ==
  /\ 0 < root /\ 0 <= target /\ target <= root
  /\ root <= proof.log2_root_size /\ proof.log2_target_size <= target

Slice(root, target) ==
  \/ ~SliceAllowed(root, target) /\ Refuse("out_of_range")
  \/ /\ call = "none"
     /\ SliceAllowed(root, target)
     /\ call' = "slice"
     /\ sliced' = ProofOf(root, target, proof.address)
     /\ log2_size' = proof.log2_target_size
     /\ hash' = proof.target_hash
     /\ returned' = "nothing"
     /\ UNCHANGED <<node, later, proof>>

\* Below the new target.
SliceTarget ==
  /\ call = "slice" /\ log2_size < sliced.log2_target_size
  /\ hash' = Climb(proof, log2_size, hash)
  /\ log2_size' = log2_size + 1
  /\ UNCHANGED <<node, later, call, proof, sliced, returned>>

\* Fault: the slice keeps the target of the proof it is made from.
OldTarget(h) == proof.target_hash

NewTarget(h) == h

SetSlicedTarget ==
  /\ call = "slice" /\ log2_size = sliced.log2_target_size
  /\ call' = "slice_root"
  /\ sliced' = [sliced EXCEPT !.target_hash = NewTarget(hash)]
  /\ UNCHANGED <<node, later, proof, log2_size, hash, returned>>

SliceRoot ==
  /\ call = "slice_root" /\ log2_size < sliced.log2_root_size
  /\ hash' = Climb(proof, log2_size, hash)
  /\ sliced' = [sliced EXCEPT !.sibling_hashes =
                  [l \in DOMAIN sliced.sibling_hashes |->
                     IF l = log2_size THEN proof.sibling_hashes[l]
                                      ELSE sliced.sibling_hashes[l]]]
  /\ log2_size' = log2_size + 1
  /\ UNCHANGED <<node, later, call, proof, returned>>

\* The root is known, and the slice is verified before it is returned.
VerifySlice ==
  /\ call = "slice_root" /\ log2_size = sliced.log2_root_size
  /\ call' = "verify_slice"
  /\ proof' = [sliced EXCEPT !.root_hash = hash]
  /\ log2_size' = sliced.log2_target_size
  /\ hash' = sliced.target_hash
  /\ sliced' = proof'
  /\ UNCHANGED <<node, later, returned>>

-----------------------------------------------------------------------------
(* set_root_hash and set_target_hash: the caller's own idea of them. *)

NodeAt(t, l, address) == t[l][address[l]]

SetRootHash ==
  /\ call = "none" /\ InTree(proof.address)
  /\ proof' = [proof EXCEPT !.root_hash =
                 NodeAt(later, proof.log2_root_size, proof.address)]
  /\ sliced' = proof' /\ returned' = "nothing" /\ hash' = NoHash
  /\ UNCHANGED <<node, later, call, log2_size>>

SetTargetHash ==
  /\ call = "none" /\ InTree(proof.address)
  /\ proof' = [proof EXCEPT !.target_hash =
                 NodeAt(later, proof.log2_target_size, proof.address)]
  /\ sliced' = proof' /\ returned' = "nothing" /\ hash' = NoHash
  /\ UNCHANGED <<node, later, call, log2_size>>

ProofNext ==
  \/ \E address \in Addresses, size \in Log2Leaf..(Log2Root + 1) : GetProof(address, size)
  \/ TakeSibling \/ EndGetProof
  \/ Verify \/ ReplaceTarget \/ BubbleUp \/ EndBubbleUp
  \/ \E root, target \in 0..(Log2Root + 1) : Slice(root, target)
  \/ SliceTarget \/ SetSlicedTarget \/ SliceRoot \/ VerifySlice
  \/ SetRootHash \/ SetTargetHash

ProofSpec == ProofInit /\ [][ProofNext]_proofVars

-----------------------------------------------------------------------------
(* What a proof proves. *)

RootFits(p, t) == p.root_hash = NodeAt(t, p.log2_root_size, p.address)

TargetFits(p, t) == p.target_hash = NodeAt(t, p.log2_target_size, p.address)

SiblingsFit(p, t) ==
  \A l \in DOMAIN p.sibling_hashes :
    p.sibling_hashes[l] = t[l][Sibling(p.address[l])]

Fits(p, t) == RootFits(p, t) /\ TargetFits(p, t) /\ SiblingsFit(p, t)

\* Loops stay between target and root, so that log2_size_to_index never throws.
ProofType(p) ==
  /\ p.log2_root_size \in 0..Log2Root
  /\ p.log2_target_size \in Log2Leaf..p.log2_root_size
  /\ p.address \in Addresses
  /\ DOMAIN p.sibling_hashes = p.log2_target_size..(p.log2_root_size - 1)

\* verify against the root of a tree, the one the proof was taken from or a
\* later one, accepts just the proofs whose target and siblings are nodes of
\* that tree: a proof of a changed record is refused, a good one never is.
VerifyDecides ==
  \A t \in {node, later} :
    call = "none" /\ returned \in {"valid", "invalid"}
        /\ InTree(proof.address) /\ RootFits(proof, t) =>
      (returned = "valid" <=> TargetFits(proof, t) /\ SiblingsFit(proof, t))

\* bubble_up of a new target hash is the root of the tree that has it and is
\* otherwise the same: a record can be replaced knowing only its proof.
NewRootFits ==
  call = "none" /\ returned = "hash" /\ InTree(proof.address)
      /\ SiblingsFit(proof, later) =>
    hash = NodeAt(later, proof.log2_root_size, proof.address)

\* get_proof returns a proof of the tree as it is; and a slice of a good proof is a
\* good proof of the smaller tree, whatever the sizes, so that slices can be sliced
\* again.
ProofsFit ==
  [][/\ call = "get_proof" /\ call' = "none" => Fits(proof', node)
     /\ call = "slice_root" /\ call' = "verify_slice" =>
          \A t \in {node, later} :
            InTree(proof.address) /\ Fits(proof, t) => Fits(proof', t)]_proofVars

\* slice never throws "produced invalid sliced proof" (hash-tree-proof.h:242),
\* not even for a proof that does not verify.
SliceIsValid == returned # "logic_error"
=============================================================================
