----------------------------- MODULE MerkleTree -----------------------------
(***************************************************************************)
(* complete_merkle_tree (src/misc/complete-merkle-tree.cpp, .h) over       *)
(* pristine_merkle_tree (src/misc/pristine-merkle-tree.cpp): the tree the  *)
(* drive reader proves a balance record with.  The tree keeps the leaves   *)
(* that were given and, per level, the hashes above them; what lies to     *)
(* the right of a level is pristine.                                       *)
(*                                                                         *)
(* The loops of the constructor and of bubble_up are a step per level.     *)
(***************************************************************************)
EXTENDS TreeSizes, SequencesExt

CONSTANTS
  Log2Word,     \* log2_word_size
  LeafHashes,   \* hashes a leaf can have
  ZeroWord      \* the hash of a word of zeros

\* check_log2_sizes, and the limit on the size of an address.
ASSUME SizesAssumption ==
  /\ Log2Root \in 0..63 /\ Log2Leaf \in Nat /\ Log2Word \in Nat
  /\ Log2Word <= Log2Leaf /\ Log2Leaf <= Log2Root

VARIABLES
  pristine,   \* m_pristine.m_hashes, by log2 size
  tree,       \* m_tree, by log2 size
  next_size,  \* log2_next_size of the loop of bubble_up; Log2Root + 1 at rest
  result      \* what the last call ended with

treeVars == <<pristine, tree, next_size, result>>

PristineDone == DOMAIN pristine = Log2Word..Log2Root
AtRest       == PristineDone /\ next_size = Log2Root + 1

\* Nodes a level can have.
Capacity(log2_size) == 2^(Log2Root - log2_size)

-----------------------------------------------------------------------------
(* Construction: a pristine tree, or one from leaves that fit.  The         *)
(* constructor does not compare their number with the size of the tree.    *)

Given == BoundedSeq(LeafHashes, Capacity(Log2Leaf))

PristineWord == [l \in {Log2Word} |-> ZeroWord]

TreeOf(given) == [l \in Levels |-> IF l = Log2Leaf THEN given ELSE <<>>]

TreeInit ==
  /\ pristine = PristineWord
  /\ \E given \in Given : tree = TreeOf(given)
  /\ next_size = Log2Leaf + 1
  /\ result = "SUCCESS"

PristineOf(log2_size) ==
  get_concat_hash(pristine[log2_size - 1], pristine[log2_size - 1])

PristineLevel ==
  \E i \in (Log2Word + 1)..Log2Root :
    /\ DOMAIN pristine = Log2Word..(i - 1)
    /\ pristine' = [l \in Log2Word..i |-> IF l = i THEN PristineOf(i) ELSE pristine[l]]
    /\ UNCHANGED <<tree, next_size, result>>

-----------------------------------------------------------------------------
(* bubble_up and push_back. *)

\* Fault: the last entry is taken for final.
FirstNewEntry(next) == Len(next)

first_entry(next) == IF next # <<>> THEN Len(next) - 1 ELSE Len(next)

\* Entry j, from 1, of the level above `prev`.
Entry(log2_prev_size, prev, j) ==
  IF 2 * j <= Len(prev) THEN get_concat_hash(prev[2 * j - 1], prev[2 * j])
                        ELSE get_concat_hash(Last(prev), pristine[log2_prev_size])

\* Fault: half as many, rounded down.
HalfDown(prev) == Len(prev) \div 2

NextLen(prev) == (Len(prev) + 1) \div 2

BubbleUpLevel ==
  LET prev == tree[next_size - 1]
      next == tree[next_size]
  IN  /\ PristineDone
      /\ next_size <= Log2Root
      /\ tree' = [tree EXCEPT ![next_size] =
                    [j \in 1..NextLen(prev) |->
                       IF j <= first_entry(next) THEN next[j]
                       ELSE Entry(next_size - 1, prev, j)]]
      /\ next_size' = next_size + 1
      /\ UNCHANGED <<pristine, result>>

leaves == tree[Log2Leaf]

IsFull == Len(leaves) >= Capacity(Log2Leaf)

push_back(hash) ==
  /\ AtRest
  /\ \/ IsFull /\ result' = "out_of_range" /\ UNCHANGED <<pristine, tree, next_size>>
     \/ /\ ~IsFull
        /\ tree' = [tree EXCEPT ![Log2Leaf] = Append(leaves, hash)]
        /\ next_size' = Log2Leaf + 1
        /\ result' = "SUCCESS"
        /\ UNCHANGED pristine

TreeNext == PristineLevel \/ BubbleUpLevel \/ \E hash \in LeafHashes : push_back(hash)

TreeSpec == TreeInit /\ [][TreeNext]_treeVars

-----------------------------------------------------------------------------
(* Reading. *)

\* Node i, from 0, of a level: get_node_hash at address i * 2^log2_size.
NodeHash(log2_size, i) ==
  IF i < Len(tree[log2_size]) THEN tree[log2_size][i + 1] ELSE pristine[log2_size]

get_root_hash == NodeHash(Log2Root, 0)

-----------------------------------------------------------------------------
(* What the tree promises. *)

\* The hash of a memory: the leaves it has, then words of zeros, hashed word by
\* word in halves (get_merkle_tree_hash, misc/i-hasher.h:126-154).
ZeroHash[l \in Log2Word..Log2Root] ==
  IF l = Log2Word THEN ZeroWord ELSE get_concat_hash(ZeroHash[l - 1], ZeroHash[l - 1])

ReferenceNodes(given) ==
  LET nodes[l \in Levels] ==
        [i \in Nat |->
           IF l = Log2Leaf
           THEN IF i < Len(given) THEN given[i + 1] ELSE ZeroHash[Log2Leaf]
           ELSE get_concat_hash(nodes[l - 1][2 * i], nodes[l - 1][2 * i + 1])]
  IN  nodes

\* However the leaves came, at once or one by one, the root is that of the
\* memory they describe, and every leaf that was pushed is in it: a push
\* recomputes the last entry of each level, made with a pristine neighbour.
RootIsReference == AtRest => get_root_hash = ReferenceNodes(leaves)[Log2Root][0]

\* At rest the children of each node hash to it, whether the three are stored
\* or pristine: bubble_up recomputes every stale entry although it starts at
\* the last one of each level, and each level's pristine hash fits the next.
NodesMatch ==
  AtRest =>
    \A l \in Log2Leaf..(Log2Root - 1) : \A i \in 0..(Capacity(l + 1) - 1) :
      NodeHash(l + 1, i) = get_concat_hash(NodeHash(l, 2 * i), NodeHash(l, 2 * i + 1))
=============================================================================
