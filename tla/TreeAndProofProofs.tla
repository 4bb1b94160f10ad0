------------------------- MODULE TreeAndProofProofs -------------------------
(***************************************************************************)
(* The trees of the account drive and the proofs taken from them, for      *)
(* trees and proofs of every size: first the tree, then hash_tree_proof.   *)
(***************************************************************************)
EXTENDS TreeAndProof, SumLemmas, TLAPS

(***************************************************************************)
(* At rest every node of the tree is the hash of its children, for trees   *)
(* of every size.                                                          *)
(*                                                                         *)
(* The loop of bubble_up starts each level at its last entry.  It may,     *)
(* because of what is invariant before the level is done: it has at most   *)
(* the entries it will have, and all but the last are right already        *)
(* (AlmostSettled).  Redoing a level changes nothing before its last       *)
(* entry, so the level above is almost settled in turn.                    *)
(***************************************************************************)

IsLevel(s) == Len(s) \in Nat /\ DOMAIN s = 1..Len(s)

RightEntry(t, p, l, j) ==
  t[l][j] = IF 2 * j <= Len(t[l - 1])
            THEN <<t[l - 1][2 * j - 1], t[l - 1][2 * j]>>
            ELSE <<t[l - 1][Len(t[l - 1])], p[l - 1]>>

Settled(t, p, l) ==
  /\ Len(t[l]) = NextLen(t[l - 1])
  /\ \A j \in 1..Len(t[l]) : RightEntry(t, p, l, j)

AlmostSettled(t, p, l) ==
  /\ Len(t[l]) <= NextLen(t[l - 1])
  /\ \A j \in 1..(Len(t[l]) - 1) : RightEntry(t, p, l, j)

LevelsOK ==
  /\ next_size \in (Log2Leaf + 1)..(Log2Root + 1)
  /\ DOMAIN tree = Levels
  /\ \A l \in Levels : IsLevel(tree[l])

PristineOK ==
  \E k \in Log2Word..Log2Root :
    /\ DOMAIN pristine = Log2Word..k
    /\ pristine[Log2Word] = ZeroWord
    /\ \A l \in (Log2Word + 1)..k : pristine[l] = <<pristine[l - 1], pristine[l - 1]>>

\* Until the pristine hashes are there, only the leaves are.
OnlyLeaves ==
  ~PristineDone =>
    next_size = Log2Leaf + 1 /\ \A l \in (Log2Leaf + 1)..Log2Root : Len(tree[l]) = 0

LevelsSettled ==
  \A l \in (Log2Leaf + 1)..Log2Root :
    IF l = next_size THEN AlmostSettled(tree, pristine, l)
                     ELSE Settled(tree, pristine, l)  \* below: redone; above: as before

TreeInv == LevelsOK /\ PristineOK /\ OnlyLeaves /\ LevelsSettled

-----------------------------------------------------------------------------
LEMMA TreeSizesFact ==
  Log2Root \in Nat /\ Log2Leaf \in Nat /\ Log2Word \in Nat /\ Log2Word <= Log2Leaf
BY SizesAssumption

LEMMA HalfFact ==
  ASSUME NEW n \in Nat
  PROVE  /\ (n + 1) \div 2 \in Nat
         /\ 2 * ((n + 1) \div 2) \in {n, n + 1}
OBVIOUS

\* A tree is built of its leaves, at first or again.
Started ==
  /\ \E given : IsLevel(given) /\ tree = TreeOf(given)
  /\ next_size = Log2Leaf + 1
  /\ pristine = PristineWord

LEMMA StartHolds == Started => TreeInv
<1> SUFFICES ASSUME NEW given, IsLevel(given), tree = TreeOf(given),
                    next_size = Log2Leaf + 1, pristine = PristineWord
             PROVE  TreeInv
  BY DEF Started
<1>1. tree = [l \in Levels |-> IF l = Log2Leaf THEN given ELSE <<>>]
  BY DEF TreeOf
<1>2. IsLevel(given)
  OBVIOUS
<1>3. next_size = Log2Leaf + 1 /\ pristine = [l \in {Log2Word} |-> ZeroWord]
  BY DEF PristineWord
<1>4. IsLevel(<<>>) /\ Len(<<>>) = 0
  BY DEF IsLevel
<1>5. LevelsOK
  BY <1>1, <1>2, <1>3, <1>4, TreeSizesFact, SizesAssumption DEF LevelsOK, Levels
<1>6. PristineOK
  <2>1. {Log2Word} = Log2Word..Log2Word
    BY TreeSizesFact
  <2> QED
    BY <2>1, <1>3, TreeSizesFact, SizesAssumption DEF PristineOK
<1>7. \A l \in (Log2Leaf + 1)..Log2Root : tree[l] = <<>>
  BY <1>1, TreeSizesFact DEF Levels
<1>8. OnlyLeaves
  BY <1>3, <1>4, <1>7 DEF OnlyLeaves
<1>9. LevelsSettled
  <2> SUFFICES ASSUME NEW l \in (Log2Leaf + 1)..Log2Root
               PROVE  IF l = next_size THEN AlmostSettled(tree, pristine, l)
                                       ELSE Settled(tree, pristine, l)
    BY DEF LevelsSettled
  <2>1. tree[l] = <<>> /\ Len(tree[l]) = 0
    BY <1>4, <1>7
  <2>2. Len(tree[l - 1]) \in Nat
    BY <1>5, TreeSizesFact DEF LevelsOK, Levels, IsLevel
  <2>3. CASE l = next_size
    <3>1. 0 <= NextLen(tree[l - 1])
      <4>1. NextLen(tree[l - 1]) \in Nat
        BY <2>2, HalfFact DEF NextLen
      <4> QED
        BY <4>1
    <3>2. 1..(0 - 1) = {}
      OBVIOUS
    <3> QED
      BY <2>1, <2>3, <3>1, <3>2 DEF AlmostSettled
  <2>4. CASE l # next_size
    <3>1. tree[l - 1] = <<>>
      BY <1>3, <1>7, <2>4, TreeSizesFact
    <3> QED
      BY <2>1, <2>4, <3>1, <1>4 DEF Settled, NextLen
  <2> QED
    BY <2>3, <2>4
<1> QED
  BY <1>5, <1>6, <1>8, <1>9 DEF TreeInv

LEMMA PristineLevelKeeps == TreeInv /\ PristineLevel => TreeInv'
<1> SUFFICES ASSUME TreeInv, PristineLevel PROVE TreeInv'
  OBVIOUS
<1>1. PICK i \in (Log2Word + 1)..Log2Root :
        /\ DOMAIN pristine = Log2Word..(i - 1)
        /\ pristine' = [l \in Log2Word..i |-> IF l = i THEN PristineOf(i) ELSE pristine[l]]
        /\ UNCHANGED <<tree, next_size, result>>
  BY DEF PristineLevel
<1>2. ~PristineDone
  BY <1>1, TreeSizesFact DEF PristineDone
<1>3. LevelsOK' /\ next_size = Log2Leaf + 1
      /\ \A l \in (Log2Leaf + 1)..Log2Root : Len(tree[l]) = 0
  BY <1>1, <1>2 DEF TreeInv, LevelsOK, OnlyLeaves
<1>4. PristineOK'
  <2>1. PICK k \in Log2Word..Log2Root :
          /\ DOMAIN pristine = Log2Word..k
          /\ pristine[Log2Word] = ZeroWord
          /\ \A l \in (Log2Word + 1)..k : pristine[l] = <<pristine[l - 1], pristine[l - 1]>>
    BY DEF TreeInv, PristineOK
  <2>2. k = i - 1
    <3>1. Log2Word..k = Log2Word..(i - 1)
      BY <1>1, <2>1
    <3>2. i - 1 \in Log2Word..(i - 1) /\ k \in Log2Word..k
      BY TreeSizesFact
    <3> QED
      BY <3>1, <3>2, TreeSizesFact
  <2>3. \A l \in (Log2Word + 1)..i : pristine'[l] = <<pristine'[l - 1], pristine'[l - 1]>>
    BY <1>1, <2>1, <2>2, TreeSizesFact DEF PristineOf, get_concat_hash
  <2>4. i \in Log2Word..Log2Root /\ DOMAIN pristine' = Log2Word..i
    BY <1>1, TreeSizesFact
  <2>5. pristine'[Log2Word] = ZeroWord
    BY <1>1, <2>1, TreeSizesFact
  <2> QED
    BY <2>5, <2>3, <2>4 DEF PristineOK
<1>5. OnlyLeaves'
  BY <1>1, <1>3 DEF OnlyLeaves
<1>6. LevelsSettled'
  <2> SUFFICES ASSUME NEW l \in (Log2Leaf + 1)..Log2Root
               PROVE  (IF l = next_size THEN AlmostSettled(tree, pristine, l)
                                        ELSE Settled(tree, pristine, l))'
    BY DEF LevelsSettled
  <2>1. IF l = next_size THEN AlmostSettled(tree, pristine, l)
                         ELSE Settled(tree, pristine, l)
    BY DEF TreeInv, LevelsSettled
  <2> QED
    BY <1>1, <1>3, <2>1 DEF AlmostSettled, Settled
<1> QED
  BY <1>3, <1>4, <1>5, <1>6 DEF TreeInv

LEMMA PushKeeps == ASSUME NEW leaf_hash \in LeafHashes PROVE TreeInv /\ push_back(leaf_hash) => TreeInv'
<1> SUFFICES ASSUME TreeInv, push_back(leaf_hash) PROVE TreeInv'
  OBVIOUS
<1>1. CASE UNCHANGED <<pristine, tree, next_size>>
  BY <1>1 DEF TreeInv, LevelsOK, PristineOK, OnlyLeaves, LevelsSettled, PristineDone,
              AlmostSettled, Settled, RightEntry
<1>2. CASE /\ AtRest
           /\ tree' = [tree EXCEPT ![Log2Leaf] = Append(leaves, leaf_hash)]
           /\ next_size' = Log2Leaf + 1
           /\ UNCHANGED pristine
  <2>1. LevelsOK /\ PristineDone
    BY <1>2 DEF TreeInv, AtRest
  <2> DEFINE old == tree[Log2Leaf]
             new == Append(tree[Log2Leaf], leaf_hash)
  <2>2. IsLevel(old)
    BY <2>1, TreeSizesFact, SizesAssumption DEF LevelsOK, Levels
  <2>3. /\ IsLevel(new) /\ Len(new) = Len(old) + 1
        /\ \A j \in 1..Len(old) : new[j] = old[j]
    BY <2>2 DEF IsLevel
  <2>4. /\ DOMAIN tree' = Levels
        /\ tree'[Log2Leaf] = new
        /\ \A l \in (Log2Leaf + 1)..Log2Root : tree'[l] = tree[l]
    BY <1>2, <2>1, TreeSizesFact, SizesAssumption DEF LevelsOK, Levels, leaves
  <2> HIDE DEF old, new
  <2>5. LevelsOK'
    <3>1. next_size' \in (Log2Leaf + 1)..(Log2Root + 1)
      BY <1>2, TreeSizesFact, SizesAssumption
    <3>2. ASSUME NEW l \in Levels PROVE IsLevel(tree'[l])
      <4>1. CASE l = Log2Leaf
        BY <2>3, <2>4, <4>1
      <4>2. CASE l # Log2Leaf
        BY <2>1, <2>4, <4>2, TreeSizesFact DEF LevelsOK, Levels
      <4> QED
        BY <4>1, <4>2
    <3> QED
      BY <2>4, <3>1, <3>2 DEF LevelsOK
  <2>6. PristineOK' /\ OnlyLeaves'
    BY <1>2, <2>1 DEF TreeInv, PristineOK, OnlyLeaves, PristineDone
  <2>7. LevelsSettled'
    <3> SUFFICES ASSUME NEW l \in (Log2Leaf + 1)..Log2Root
                 PROVE  IF l = Log2Leaf + 1 THEN AlmostSettled(tree', pristine, l)
                                            ELSE Settled(tree', pristine, l)
      BY <1>2 DEF LevelsSettled
    <3>1. Settled(tree, pristine, l)
      <4>1. l # next_size
        BY <1>2, TreeSizesFact DEF AtRest
      <4> QED
        BY <4>1 DEF TreeInv, LevelsSettled
    <3>2. CASE l # Log2Leaf + 1
      <4>1. tree'[l] = tree[l] /\ tree'[l - 1] = tree[l - 1]
        BY <2>4, <3>2, TreeSizesFact
      <4> QED
        BY <3>1, <3>2, <4>1 DEF Settled, RightEntry
    <3>3. CASE l = Log2Leaf + 1
      <4>1. tree'[l] = tree[l] /\ tree'[l - 1] = new /\ tree[l - 1] = old
        BY <2>4, <3>3, TreeSizesFact DEF old
      <4>2. Len(old) \in Nat /\ Len(tree[l]) = (Len(old) + 1) \div 2
        BY <2>2, <3>1, <4>1 DEF Settled, NextLen, IsLevel
      <4>3. Len(tree[l]) <= (Len(new) + 1) \div 2
        BY <2>3, <4>2
      <4>4. ASSUME NEW j \in 1..(Len(tree[l]) - 1) PROVE RightEntry(tree', pristine, l, j)
        <5>1. j \in 1..Len(tree[l]) /\ 2 * j - 1 \in 1..Len(old) /\ 2 * j \in 1..Len(old)
          BY <4>2, HalfFact
        <5>2. RightEntry(tree, pristine, l, j)
          BY <3>1, <5>1 DEF Settled
        <5>3. tree[l][j] = <<old[2 * j - 1], old[2 * j]>>
          BY <4>1, <5>1, <5>2 DEF RightEntry
        <5>4. 2 * j <= Len(new) /\ new[2 * j - 1] = old[2 * j - 1] /\ new[2 * j] = old[2 * j]
          BY <2>3, <4>2, <5>1
        <5> QED
          BY <4>1, <5>3, <5>4 DEF RightEntry
      <4> QED
        BY <3>3, <4>1, <4>3, <4>4 DEF AlmostSettled, NextLen
    <3> QED
      BY <3>2, <3>3
  <2> QED
    BY <2>5, <2>6, <2>7 DEF TreeInv
<1> QED
  BY <1>1, <1>2 DEF push_back

\* One turn of the loop: the level is settled, and no entry before its old
\* last one is touched.
LEMMA BubbleUpLevelKeeps == TreeInv /\ BubbleUpLevel => TreeInv'
<1> SUFFICES ASSUME TreeInv, BubbleUpLevel PROVE TreeInv'
  OBVIOUS
<1> DEFINE n == next_size
           prev == tree[n - 1]
           next == tree[n]
           first == IF Len(next) = 0 THEN 0 ELSE Len(next) - 1
           new == [j \in 1..NextLen(prev) |->
                     IF j <= first_entry(next) THEN next[j] ELSE Entry(n - 1, prev, j)]
<1>1. /\ LevelsOK /\ PristineDone
      /\ n \in (Log2Leaf + 1)..Log2Root
      /\ tree' = [tree EXCEPT ![n] = new]
      /\ next_size' = n + 1
      /\ UNCHANGED pristine
  BY DEF TreeInv, BubbleUpLevel, LevelsOK
<1>2. IsLevel(prev) /\ IsLevel(next)
  BY <1>1, TreeSizesFact DEF LevelsOK, Levels
<1>3. NextLen(prev) \in Nat
  BY <1>2, HalfFact DEF IsLevel, NextLen
<1>4. Len(new) = NextLen(prev) /\ IsLevel(new)
  BY <1>3 DEF IsLevel
<1>5. first_entry(next) = first
  BY <1>2 DEF first_entry, IsLevel
<1>6. AlmostSettled(tree, pristine, n)
  BY <1>1 DEF TreeInv, LevelsSettled
<1>7. \A j \in 1..NextLen(prev) :
        new[j] = IF 2 * j <= Len(prev) THEN <<prev[2 * j - 1], prev[2 * j]>>
                                       ELSE <<prev[Len(prev)], pristine[n - 1]>>
  <2> SUFFICES ASSUME NEW j \in 1..NextLen(prev)
               PROVE  new[j] = IF 2 * j <= Len(prev) THEN <<prev[2 * j - 1], prev[2 * j]>>
                                       ELSE <<prev[Len(prev)], pristine[n - 1]>>
    OBVIOUS
  <2>1. CASE j <= first
    <3>1. j \in 1..(Len(next) - 1) /\ new[j] = next[j]
      BY <2>1, <1>2, <1>3, <1>5 DEF IsLevel
    <3>2. RightEntry(tree, pristine, n, j)
      BY <3>1, <1>6 DEF AlmostSettled
    <3> QED
      BY <3>1, <3>2 DEF RightEntry
  <2>2. CASE ~(j <= first)
    BY <2>2, <1>5 DEF Entry, get_concat_hash, Last
  <2> QED
    BY <2>1, <2>2
<1>8. \A j \in 1..(Len(next) - 1) : j \in 1..NextLen(prev) /\ new[j] = next[j]
  BY <1>2, <1>3, <1>5, <1>6 DEF AlmostSettled, IsLevel
<1>9. Len(next) <= Len(new) /\ Len(new) \in Nat /\ Len(next) \in Nat
  BY <1>2, <1>4, <1>6 DEF AlmostSettled, IsLevel
<1>10. n \in Levels /\ n - 1 \in Levels /\ n - 1 # n /\ DOMAIN tree = Levels
  BY <1>1, TreeSizesFact DEF LevelsOK, Levels
<1> HIDE DEF new
<1>11. /\ DOMAIN tree' = Levels /\ tree'[n] = new
      /\ \A l \in Levels : l # n => tree'[l] = tree[l]
  BY <1>1, <1>10
<1>12. /\ DOMAIN tree' = Levels /\ tree'[n] = new /\ tree'[n - 1] = prev
       /\ \A l \in Levels : l # n => tree'[l] = tree[l]
  BY <1>10, <1>11
<1> HIDE DEF n, prev, next, first
<1>13. LevelsOK'
  BY <1>1, <1>4, <1>12, TreeSizesFact DEF LevelsOK, Levels
<1>14. PristineOK' /\ OnlyLeaves'
  BY <1>1 DEF TreeInv, PristineOK, OnlyLeaves, PristineDone
<1>15. LevelsSettled'
  <2> SUFFICES ASSUME NEW l \in (Log2Leaf + 1)..Log2Root
               PROVE  IF l = n + 1 THEN AlmostSettled(tree', pristine, l)
                                   ELSE Settled(tree', pristine, l)
    BY <1>1 DEF LevelsSettled
  <2>0. l \in Levels /\ l - 1 \in Levels /\ n \in Nat /\ l \in Nat
    BY <1>1, TreeSizesFact DEF Levels
  <2>1. CASE l = n
    <3>1. tree'[l] = new /\ tree'[l - 1] = prev /\ l # n + 1
      BY <1>12, <2>0, <2>1
    <3>2. Len(tree'[l]) = NextLen(tree'[l - 1])
      BY <1>4, <3>1
    <3>3. \A j \in 1..Len(tree'[l]) : RightEntry(tree', pristine, l, j)
      BY <1>4, <1>7, <2>1, <3>1 DEF RightEntry
    <3> QED
      BY <3>1, <3>2, <3>3 DEF Settled
  <2>2. CASE l = n + 1
    <3>1. tree'[l] = tree[l] /\ tree'[l - 1] = new /\ tree[l - 1] = next
      BY <1>12, <2>0, <2>2 DEF next
    <3>2. Settled(tree, pristine, l)
      BY <2>0, <2>2 DEF TreeInv, LevelsSettled, n
    <3>3. Len(tree[l]) = (Len(next) + 1) \div 2
      BY <3>1, <3>2 DEF Settled, NextLen
    <3>4. Len(tree[l]) <= (Len(new) + 1) \div 2
      BY <1>9, <3>3
    <3>5. ASSUME NEW j \in 1..(Len(tree[l]) - 1) PROVE RightEntry(tree', pristine, l, j)
      <4>1. /\ j \in 1..Len(tree[l])
            /\ 2 * j - 1 \in 1..(Len(next) - 1)
            /\ 2 * j \in 1..Len(next)
        BY <1>9, <3>3, HalfFact
      <4>2. CASE 2 * j \in 1..(Len(next) - 1)
        <5>1. new[2 * j - 1] = next[2 * j - 1] /\ new[2 * j] = next[2 * j]
          BY <1>8, <4>1, <4>2
        <5>2. RightEntry(tree, pristine, l, j)
          BY <3>2, <4>1 DEF Settled
        <5>3. tree[l][j] = <<next[2 * j - 1], next[2 * j]>>
          BY <3>1, <4>1, <5>2, <1>9 DEF RightEntry
        <5>4. 2 * j <= Len(new)
          BY <4>1, <1>9
        <5> QED
          BY <3>1, <5>1, <5>3, <5>4 DEF RightEntry
      <4>3. 2 * j \in 1..(Len(next) - 1)
        BY <1>9, <3>3, HalfFact
      <4> QED
        BY <4>2, <4>3
    <3> QED
      BY <2>2, <3>1, <3>4, <3>5 DEF AlmostSettled, NextLen
  <2>3. CASE l # n /\ l # n + 1
    <3>1. tree'[l] = tree[l] /\ tree'[l - 1] = tree[l - 1]
      BY <1>12, <2>0, <2>3
    <3>2. Settled(tree, pristine, l)
      BY <2>3 DEF TreeInv, LevelsSettled, n
    <3> QED
      BY <2>3, <3>1, <3>2 DEF Settled, RightEntry
  <2> QED
    BY <2>1, <2>2, <2>3
<1> QED
  BY <1>13, <1>14, <1>15 DEF TreeInv

LEMMA TreeNextHolds == TreeInv /\ [TreeNext]_treeVars => TreeInv'
<1> SUFFICES ASSUME TreeInv, [TreeNext]_treeVars PROVE TreeInv'
  OBVIOUS
<1>1. CASE PristineLevel
  BY <1>1, PristineLevelKeeps
<1>2. CASE BubbleUpLevel
  BY <1>2, BubbleUpLevelKeeps
<1>3. ASSUME NEW leaf_hash \in LeafHashes, push_back(leaf_hash) PROVE TreeInv'
  BY <1>3, PushKeeps
<1>4. CASE UNCHANGED treeVars
  BY <1>4 DEF treeVars, TreeInv, LevelsOK, PristineOK, OnlyLeaves, LevelsSettled, PristineDone,
              AlmostSettled, Settled, RightEntry
<1> QED
  BY <1>1, <1>2, <1>3, <1>4 DEF TreeNext

\* So for every position, in the tree or to the right of it.
LEMMA NodesFromLevels ==
  TreeInv /\ AtRest =>
    \A l \in Log2Leaf..(Log2Root - 1) : \A i \in Nat :
      NodeHash(l + 1, i) = <<NodeHash(l, 2 * i), NodeHash(l, 2 * i + 1)>>
<1> SUFFICES ASSUME TreeInv, AtRest, NEW l \in Log2Leaf..(Log2Root - 1), NEW i \in Nat
             PROVE  NodeHash(l + 1, i) = <<NodeHash(l, 2 * i), NodeHash(l, 2 * i + 1)>>
  OBVIOUS
<1> DEFINE up == tree[l + 1]
           down == tree[l]
<1>1. i \in Nat
  OBVIOUS
<1>2. l \in Nat /\ l \in Levels /\ l + 1 \in Levels /\ l + 1 \in (Log2Leaf + 1)..Log2Root
  BY TreeSizesFact DEF Levels
<1>3. IsLevel(up) /\ IsLevel(down)
  BY <1>2 DEF TreeInv, LevelsOK
<1>4. Settled(tree, pristine, l + 1)
  BY <1>2, TreeSizesFact DEF TreeInv, LevelsSettled, AtRest
<1>5. Len(up) = (Len(down) + 1) \div 2
  BY <1>2, <1>4 DEF Settled, NextLen
<1>6. \A j \in 1..Len(up) :
        up[j] = IF 2 * j <= Len(down) THEN <<down[2 * j - 1], down[2 * j]>>
                                      ELSE <<down[Len(down)], pristine[l]>>
  <2>1. l + 1 - 1 = l
    BY <1>2, TreeSizesFact DEF Levels
  <2>2. ASSUME NEW j \in 1..Len(up)
        PROVE  RightEntry(tree, pristine, l + 1, j)
    BY <1>4 DEF Settled
  <2>3. ASSUME NEW j \in 1..Len(up)
        PROVE  up[j] = IF 2 * j <= Len(down) THEN <<down[2 * j - 1], down[2 * j]>>
                                             ELSE <<down[Len(down)], pristine[l]>>
    <3>1. RightEntry(tree, pristine, l + 1, j)
      BY <2>2
    <3>2. ASSUME NEW below, below = l,
                 up[j] = IF 2 * j <= Len(tree[below])
                         THEN <<tree[below][2 * j - 1], tree[below][2 * j]>>
                         ELSE <<tree[below][Len(tree[below])], pristine[below]>>
          PROVE  up[j] = IF 2 * j <= Len(down) THEN <<down[2 * j - 1], down[2 * j]>>
                                               ELSE <<down[Len(down)], pristine[l]>>
      BY <3>2
    <3>3. up[j] = IF 2 * j <= Len(tree[l + 1 - 1])
                  THEN <<tree[l + 1 - 1][2 * j - 1], tree[l + 1 - 1][2 * j]>>
                  ELSE <<tree[l + 1 - 1][Len(tree[l + 1 - 1])], pristine[l + 1 - 1]>>
      BY <3>1 DEF RightEntry
    <3> QED
      BY <2>1, <3>2, <3>3
  <2> QED
    BY <2>3
<1>7. pristine[l + 1] = <<pristine[l], pristine[l]>>
  BY <1>2, TreeSizesFact DEF TreeInv, PristineOK, AtRest, PristineDone, Levels
<1>8. Len(up) \in Nat /\ Len(down) \in Nat /\ 2 * Len(up) \in {Len(down), Len(down) + 1}
  BY <1>3, <1>5, HalfFact DEF IsLevel
<1> HIDE DEF up, down
<1>9. CASE i < Len(up)
  <2>1. i + 1 \in 1..Len(up) /\ 2 * i < Len(down)
    BY <1>1, <1>8, <1>9
  <2>2. up[i + 1] = IF 2 * i + 2 <= Len(down) THEN <<down[2 * i + 1], down[2 * i + 2]>>
                                              ELSE <<down[Len(down)], pristine[l]>>
    <3>1. 2 * (i + 1) = 2 * i + 2 /\ 2 * (i + 1) - 1 = 2 * i + 1
      BY <1>1
    <3> QED
      BY <1>6, <2>1, <3>1
  <2>3. CASE 2 * i + 2 <= Len(down)
    <3>1. 2 * i + 1 < Len(down) /\ 2 * i + 1 + 1 = 2 * i + 2
      BY <1>1, <1>8, <2>3
    <3> QED
      BY <1>9, <2>1, <2>2, <2>3, <3>1 DEF NodeHash, up, down
  <2>4. CASE ~(2 * i + 2 <= Len(down))
    <3>1. Len(down) = 2 * i + 1 /\ ~(2 * i + 1 < Len(down))
      BY <1>1, <1>8, <2>1, <2>4
    <3> QED
      BY <1>9, <2>1, <2>2, <2>4, <3>1 DEF NodeHash, up, down
  <2> QED
    BY <2>3, <2>4
<1>10. CASE ~(i < Len(up))
  <2>1. ~(2 * i < Len(down)) /\ ~(2 * i + 1 < Len(down))
    BY <1>1, <1>8, <1>10
  <2> QED
    BY <1>7, <1>10, <2>1 DEF NodeHash, up, down
<1> QED
  BY <1>9, <1>10

LEMMA TreeInvariance == Spec => []TreeInv
<1>1. Init => TreeInv
  <2>1. ASSUME NEW given \in BoundedSeq(LeafHashes, Capacity(Log2Leaf)) PROVE IsLevel(given)
    BY DEF BoundedSeq, IsLevel
  <2>2. TreeInit => Started
    BY <2>1 DEF TreeInit, Given, Started
  <2> QED
    BY <2>2, StartHolds DEF Init
<1>2. TreeInv /\ [Next]_vars => TreeInv'
  <2>1. TreeInv /\ Rebuild => TreeInv'
    <3> SUFFICES ASSUME TreeInv, Rebuild PROVE TreeInv'
      OBVIOUS
    <3>1. PICK j \in DOMAIN leaves, hash_j \in LeafHashes :
            /\ tree' = TreeOf([leaves EXCEPT ![j] = hash_j])
            /\ next_size' = Log2Leaf + 1
            /\ pristine' = PristineWord
      BY DEF Rebuild
    <3> DEFINE again == [leaves EXCEPT ![j] = hash_j]
    <3>2. IsLevel(leaves)
      BY TreeSizesFact, SizesAssumption DEF TreeInv, LevelsOK, Levels, leaves
    <3>3. IsLevel(again)
      BY <3>2 DEF IsLevel
    <3>4. Started'
      <4> HIDE DEF again
      <4> QED
        BY <3>1, <3>3 DEF Started, IsLevel, TreeOf, PristineWord, again
    <3>5. (Started => TreeInv)'
      BY StartHolds, PTL
    <3> QED
      BY <3>4, <3>5
  <2>2. [Next]_vars => [TreeNext]_treeVars \/ Rebuild
    BY DEF Next, ChangeTree, ReadTree, UseProofs, vars, treeVars
  <2> QED
    BY <2>1, <2>2, TreeNextHolds
<1> QED
  BY <1>1, <1>2, PTL DEF Spec

\* At rest the children of every node hash to it, for every size of tree,
\* leaf and word, and every sequence of pushes and rebuilds.
THEOREM NodesHold == Spec => []NodesMatch
<1>1. TreeInv => NodesMatch
  BY NodesFromLevels DEF NodesMatch, get_concat_hash
<1> QED
  BY <1>1, TreeInvariance, PTL

(***************************************************************************)
(* The root is that of the reference.  Both are given by recursion; at     *)
(* rest the nodes of the tree and the pristine hashes obey the recursions, *)
(* and those have one solution each (by induction over the levels).        *)
(***************************************************************************)
ZeroHashes(h) ==
  h = [l \in Log2Word..Log2Root |->
         IF l = Log2Word THEN ZeroWord ELSE get_concat_hash(h[l - 1], h[l - 1])]

AreNodes(h, given) ==
  h = [l \in Levels |->
         [i \in Nat |->
            IF l = Log2Leaf
            THEN IF i < Len(given) THEN given[i + 1] ELSE ZeroHash[Log2Leaf]
            ELSE get_concat_hash(h[l - 1][2 * i], h[l - 1][2 * i + 1])]]

LEMMA ZeroHashesAgree ==
  ASSUME NEW g, NEW h, ZeroHashes(g), ZeroHashes(h)
  PROVE  \A l \in Log2Word..Log2Root : g[l] = h[l]
<1> DEFINE G == {n \in Nat : Log2Word + n \in Log2Word..Log2Root =>
                                g[Log2Word + n] = h[Log2Word + n]}
<1>1. 0 \in G
  BY TreeSizesFact DEF ZeroHashes
<1>2. ASSUME NEW n \in Nat, n \in G PROVE n + 1 \in G
  <2> SUFFICES ASSUME Log2Word + (n + 1) \in Log2Word..Log2Root
               PROVE  g[Log2Word + (n + 1)] = h[Log2Word + (n + 1)]
    OBVIOUS
  <2>1. /\ Log2Word + n \in Log2Word..Log2Root
        /\ Log2Word + (n + 1) - 1 = Log2Word + n
        /\ Log2Word + (n + 1) # Log2Word
    BY TreeSizesFact
  <2>2. g[Log2Word + n] = h[Log2Word + n]
    BY <1>2, <2>1
  <2> DEFINE up   == Log2Word + (n + 1)
             down == Log2Word + n
  <2>3. ASSUME NEW l \in Log2Word..Log2Root, l # Log2Word, g[l - 1] = h[l - 1]
        PROVE  g[l] = h[l]
    BY <2>3 DEF ZeroHashes
  <2>4. up \in Log2Word..Log2Root /\ up # Log2Word /\ up - 1 = down
    BY <2>1, TreeSizesFact
  <2>5. g[down] = h[down]
    BY <2>2
  <2> HIDE DEF up, down
  <2>6. g[up - 1] = h[up - 1]
    BY <2>4, <2>5
  <2>7. g[up] = h[up]
    BY <2>3, <2>4, <2>6
  <2> QED
    BY <2>7 DEF up
<1>3. \A n \in Nat : n \in G
  <2> HIDE DEF G
  <2> QED
    BY <1>1, <1>2, NatCollection
<1>4. ASSUME NEW l \in Log2Word..Log2Root PROVE g[l] = h[l]
  <2>1. l - Log2Word \in Nat /\ Log2Word + (l - Log2Word) = l
    BY TreeSizesFact
  <2> QED
    BY <1>3, <2>1
<1> QED
  BY <1>4

LEMMA NodesAgree ==
  ASSUME NEW g, NEW h, NEW given, AreNodes(g, given), AreNodes(h, given)
  PROVE  \A l \in Levels : g[l] = h[l]
<1> DEFINE G == {n \in Nat : Log2Leaf + n \in Levels => g[Log2Leaf + n] = h[Log2Leaf + n]}
<1>1. 0 \in G
  BY TreeSizesFact DEF AreNodes
<1>2. ASSUME NEW n \in Nat, n \in G PROVE n + 1 \in G
  <2> SUFFICES ASSUME Log2Leaf + (n + 1) \in Levels
               PROVE  g[Log2Leaf + (n + 1)] = h[Log2Leaf + (n + 1)]
    OBVIOUS
  <2>1. /\ Log2Leaf + n \in Levels
        /\ Log2Leaf + (n + 1) - 1 = Log2Leaf + n
        /\ Log2Leaf + (n + 1) # Log2Leaf
    BY TreeSizesFact DEF Levels
  <2>2. g[Log2Leaf + n] = h[Log2Leaf + n]
    BY <1>2, <2>1
  <2> DEFINE up   == Log2Leaf + (n + 1)
             down == Log2Leaf + n
  <2>3. ASSUME NEW l \in Levels, l # Log2Leaf, g[l - 1] = h[l - 1]
        PROVE  g[l] = h[l]
    <3>1. /\ g[l] = [i \in Nat |-> get_concat_hash(g[l - 1][2 * i], g[l - 1][2 * i + 1])]
          /\ h[l] = [i \in Nat |-> get_concat_hash(h[l - 1][2 * i], h[l - 1][2 * i + 1])]
      BY <2>3 DEF AreNodes
    <3>2. g[l - 1] = h[l - 1]
      BY <2>3
    <3> QED
      BY <3>1, <3>2
  <2>4. up \in Levels /\ up # Log2Leaf /\ up - 1 = down
    BY <2>1, TreeSizesFact
  <2>5. g[down] = h[down]
    BY <2>2
  <2> HIDE DEF up, down
  <2>6. g[up - 1] = h[up - 1]
    BY <2>4, <2>5
  <2>7. g[up] = h[up]
    BY <2>3, <2>4, <2>6
  <2> QED
    BY <2>7 DEF up
<1>3. \A n \in Nat : n \in G
  <2> HIDE DEF G
  <2> QED
    BY <1>1, <1>2, NatCollection
<1>4. ASSUME NEW l \in Levels PROVE g[l] = h[l]
  <2>1. l - Log2Leaf \in Nat /\ Log2Leaf + (l - Log2Leaf) = l
    BY TreeSizesFact DEF Levels
  <2> QED
    BY <1>3, <2>1
<1> QED
  BY <1>4

\* The pristine hashes are those of words of zeros.
LEMMA PristineIsZero == TreeInv /\ AtRest => \A l \in Levels : pristine[l] = ZeroHash[l]
<1> SUFFICES ASSUME TreeInv, AtRest PROVE \A l \in Levels : pristine[l] = ZeroHash[l]
  OBVIOUS
<1> DEFINE h == [l \in Log2Word..Log2Root |-> pristine[l]]
<1>1. /\ pristine[Log2Word] = ZeroWord
      /\ \A l \in (Log2Word + 1)..Log2Root : pristine[l] = <<pristine[l - 1], pristine[l - 1]>>
  <2>1. PICK k \in Log2Word..Log2Root :
          /\ DOMAIN pristine = Log2Word..k
          /\ pristine[Log2Word] = ZeroWord
          /\ \A l \in (Log2Word + 1)..k : pristine[l] = <<pristine[l - 1], pristine[l - 1]>>
    BY DEF TreeInv, PristineOK
  <2>2. Log2Root \in Log2Word..k
    BY <2>1, TreeSizesFact, SizesAssumption DEF AtRest, PristineDone
  <2>3. k = Log2Root
    BY <2>2, TreeSizesFact
  <2> QED
    BY <2>1, <2>3
<1>2. ZeroHashes(h)
  <2>1. ASSUME NEW l \in Log2Word..Log2Root
        PROVE  pristine[l] = IF l = Log2Word THEN ZeroWord ELSE <<h[l - 1], h[l - 1]>>
    <3>1. CASE l = Log2Word
      BY <1>1, <3>1
    <3>2. CASE l # Log2Word
      <4>1. l \in (Log2Word + 1)..Log2Root /\ l - 1 \in Log2Word..Log2Root
        BY <3>2, TreeSizesFact
      <4> QED
        BY <1>1, <3>2, <4>1
    <3> QED
      BY <3>1, <3>2
  <2>2. h = [l \in Log2Word..Log2Root |->
               IF l = Log2Word THEN ZeroWord ELSE <<h[l - 1], h[l - 1]>>]
    <3> HIDE DEF h
    <3>1. h = [l \in Log2Word..Log2Root |-> pristine[l]]
      BY DEF h
    <3> QED
      BY <2>1, <3>1
  <2> QED
    BY <2>2 DEF ZeroHashes, get_concat_hash
<1>3. ZeroHashes(ZeroHash)
  <2> HIDE DEF h
  <2>1. ZeroHash = CHOOSE g : ZeroHashes(g)
    BY DEF ZeroHash, ZeroHashes
  <2> QED
    BY <1>2, <2>1
<1>4. Levels \subseteq Log2Word..Log2Root
  BY TreeSizesFact DEF Levels
<1>5. ASSUME NEW l \in Levels PROVE h[l] = ZeroHash[l]
  <2> HIDE DEF h
  <2> QED
    BY <1>2, <1>3, <1>4, ZeroHashesAgree
<1> QED
  BY <1>4, <1>5

LEMMA RootFromNodes == TreeInv => RootIsReference
<1> SUFFICES ASSUME TreeInv, AtRest
             PROVE  get_root_hash = ReferenceNodes(leaves)[Log2Root][0]
  BY DEF RootIsReference
<1> DEFINE h == [l \in Levels |-> [i \in Nat |-> NodeHash(l, i)]]
<1>1. ASSUME NEW l \in Levels, NEW i \in Nat
      PROVE  NodeHash(l, i) =
               IF l = Log2Leaf
               THEN IF i < Len(leaves) THEN leaves[i + 1] ELSE ZeroHash[Log2Leaf]
               ELSE <<h[l - 1][2 * i], h[l - 1][2 * i + 1]>>
  <2>1. CASE l = Log2Leaf
    BY <2>1, PristineIsZero DEF NodeHash, leaves
  <2>2. CASE l # Log2Leaf
    <3> DEFINE b == l - 1
    <3>1. /\ b \in Log2Leaf..(Log2Root - 1) /\ b \in Levels /\ b + 1 = l
          /\ 2 * i \in Nat /\ 2 * i + 1 \in Nat
      BY <2>2, TreeSizesFact DEF Levels
    <3> HIDE DEF b
    <3>2. NodeHash(b + 1, i) = <<NodeHash(b, 2 * i), NodeHash(b, 2 * i + 1)>>
      BY <3>1, NodesFromLevels
    <3>3. NodeHash(l, i) = <<h[b][2 * i], h[b][2 * i + 1]>>
      BY <3>1, <3>2
    <3> QED
      BY <2>2, <3>3 DEF b
  <2> QED
    BY <2>1, <2>2
<1>2. AreNodes(h, leaves)
  <2>1. h = [l \in Levels |->
               [i \in Nat |->
                  IF l = Log2Leaf
                  THEN IF i < Len(leaves) THEN leaves[i + 1] ELSE ZeroHash[Log2Leaf]
                  ELSE <<h[l - 1][2 * i], h[l - 1][2 * i + 1]>>]]
    <3> HIDE DEF h
    <3>1. h = [l \in Levels |-> [i \in Nat |-> NodeHash(l, i)]]
      BY DEF h
    <3> QED
      BY <1>1, <3>1
  <2> QED
    BY <2>1 DEF AreNodes, get_concat_hash
<1>3. AreNodes(ReferenceNodes(leaves), leaves)
  <2> HIDE DEF h
  <2>1. ReferenceNodes(leaves) = CHOOSE g : AreNodes(g, leaves)
    BY DEF ReferenceNodes, AreNodes
  <2> QED
    BY <1>2, <2>1
<1>4. h[Log2Root] = ReferenceNodes(leaves)[Log2Root]
  <2> HIDE DEF h
  <2>1. Log2Root \in Levels
    BY TreeSizesFact, SizesAssumption DEF Levels
  <2> QED
    BY <1>2, <1>3, <2>1, NodesAgree
<1>5. h[Log2Root][0] = NodeHash(Log2Root, 0)
  BY TreeSizesFact, SizesAssumption DEF Levels
<1> QED
  BY <1>4, <1>5 DEF get_root_hash

\* However the leaves came, the root is that of the memory they describe, for
\* every size of tree, leaf and word, and every sequence of pushes and rebuilds.
THEOREM RootHolds == Spec => []RootIsReference
BY TreeInvariance, RootFromNodes, PTL

-----------------------------------------------------------------------------
(***************************************************************************)
(* What hash_tree_proof promises, for trees and proofs of every size.      *)
(*                                                                         *)
(* The heart is ClimbIsExact: one turn of a loop takes the node of a tree  *)
(* to its parent, and only from that node and its sibling can the parent   *)
(* be made.  So in verify the hash at hand is a node of the tree just when *)
(* the target and all siblings used so far are (VerifyInv).  A slice       *)
(* verifies because its own loop made the same hashes: the invariant keeps *)
(* them as a chain, which the code does not store (ChainInv).              *)
(***************************************************************************)

IsProof(p) ==
  p = [log2_root_size |-> p.log2_root_size, log2_target_size |-> p.log2_target_size,
       address |-> p.address, target_hash |-> p.target_hash, root_hash |-> p.root_hash,
       sibling_hashes |-> p.sibling_hashes]

Shape ==
  /\ node \in Trees /\ later \in Trees
  /\ IsProof(proof) /\ ProofType(proof) /\ IsProof(sliced) /\ ProofType(sliced)
  /\ call \in {"none", "get_proof", "verify", "bubble_up", "slice", "slice_root",
               "verify_slice"}
  /\ call \in {"get_proof", "verify", "bubble_up", "verify_slice"} =>
       log2_size \in proof.log2_target_size..proof.log2_root_size
  /\ call = "get_proof" => proof.log2_root_size = Log2Root
  /\ call \in {"get_proof", "bubble_up"} => InTree(proof.address)
  /\ call \in {"slice", "slice_root"} =>
       /\ sliced.address = proof.address
       /\ sliced.log2_root_size <= proof.log2_root_size
       /\ proof.log2_target_size <= sliced.log2_target_size
  /\ call = "slice" => log2_size \in proof.log2_target_size..sliced.log2_target_size
  /\ call = "slice_root" => log2_size \in sliced.log2_target_size..sliced.log2_root_size

SiblingsBelow(p, t, n) ==
  \A l \in p.log2_target_size..(n - 1) : p.sibling_hashes[l] = t[l][Sibling(p.address[l])]

GetInv ==
  call = "get_proof" =>
    /\ RootFits(proof, node) /\ TargetFits(proof, node)
    /\ SiblingsBelow(proof, node, log2_size)

VerifyInv ==
  call = "verify" /\ InTree(proof.address) =>
    \A t \in {node, later} :
      hash = NodeAt(t, log2_size, proof.address) <=>
        TargetFits(proof, t) /\ SiblingsBelow(proof, t, log2_size)

BubbleInv ==
  call = "bubble_up" =>
    (SiblingsBelow(proof, later, log2_size) => hash = NodeAt(later, log2_size, proof.address))

SliceInv ==
  call \in {"slice", "slice_root"} /\ InTree(proof.address) =>
    \A t \in {node, later} :
      TargetFits(proof, t) /\ SiblingsFit(proof, t) =>
        /\ hash = NodeAt(t, log2_size, proof.address)
        /\ call = "slice_root" =>
             TargetFits(sliced, t) /\ SiblingsBelow(sliced, t, log2_size)

\* c holds the hashes on the way of p from its target up to level n.
IsChain(c, p, n) ==
  /\ c[p.log2_target_size] = p.target_hash
  /\ \A l \in p.log2_target_size..(n - 1) : c[l + 1] = Climb(p, l, c[l])

ChainInv ==
  /\ call = "slice_root" => \E c : IsChain(c, sliced, log2_size) /\ c[log2_size] = hash
  /\ call = "verify_slice" =>
       \E c : /\ IsChain(c, proof, proof.log2_root_size)
              /\ c[proof.log2_root_size] = proof.root_hash
              /\ c[log2_size] = hash

ProofInv ==
  /\ Shape
  /\ GetInv /\ VerifyInv /\ BubbleInv /\ SliceInv /\ ChainInv
  /\ VerifyDecides /\ NewRootFits /\ SliceIsValid

-----------------------------------------------------------------------------
LEMMA ProofSizesFact ==
  /\ Log2Root \in Nat /\ Log2Leaf \in Nat /\ Log2Leaf <= Log2Root
  /\ \A t \in Trees : IsTree(t)
BY ProofAssumption

\* A turn of a loop makes the parent from its two children and from nothing
\* else.
LEMMA ClimbIsExact ==
  ASSUME NEW t \in Trees, NEW p, ProofType(p), InTree(p.address), NEW below,
         NEW l \in p.log2_target_size..(p.log2_root_size - 1)
  PROVE  Climb(p, l, below) = NodeAt(t, l + 1, p.address) <=>
           /\ below = NodeAt(t, l, p.address)
           /\ p.sibling_hashes[l] = t[l][Sibling(p.address[l])]
<1>1. l \in Log2Leaf..(Log2Root - 1) /\ p.address \in Addresses
  BY ProofSizesFact DEF ProofType
<1>2. IsTree(t)
  BY ProofSizesFact
<1> DEFINE i == p.address[l]
<1>3. NodeAt(t, l + 1, p.address) =
        IF IsOdd(i) THEN <<t[l][Sibling(i)], t[l][i]>> ELSE <<t[l][i], t[l][Sibling(i)]>>
  BY <1>1, <1>2 DEF IsTree, NodeAt, get_concat_hash
<1>4. Climb(p, l, below) =
        IF IsOdd(i) THEN <<p.sibling_hashes[l], below>> ELSE <<below, p.sibling_hashes[l]>>
  BY DEF Climb, get_concat_hash
<1> HIDE DEF i
<1>5. CASE IsOdd(i)
  BY <1>3, <1>4, <1>5 DEF NodeAt, i
<1>6. CASE ~IsOdd(i)
  BY <1>3, <1>4, <1>6 DEF NodeAt, i
<1> QED
  BY <1>5, <1>6

\* The siblings used after one more turn.
LEMMA OneMoreSibling ==
  ASSUME NEW p, NEW t, ProofType(p), NEW n \in p.log2_target_size..p.log2_root_size
  PROVE  SiblingsBelow(p, t, n + 1) <=>
           SiblingsBelow(p, t, n) /\ p.sibling_hashes[n] = t[n][Sibling(p.address[n])]
<1>1. p.log2_target_size \in Nat /\ n \in Nat /\ p.log2_target_size <= n
  BY ProofSizesFact DEF ProofType
<1>2. p.log2_target_size..((n + 1) - 1) = (p.log2_target_size..(n - 1)) \cup {n}
  BY <1>1
<1> QED
  BY <1>2 DEF SiblingsBelow

LEMMA NoSiblingYet ==
  ASSUME NEW p, NEW t, ProofType(p)
  PROVE  SiblingsBelow(p, t, p.log2_target_size)
BY ProofSizesFact DEF SiblingsBelow, ProofType

LEMMA AllSiblings ==
  ASSUME NEW p, NEW t, ProofType(p)
  PROVE  SiblingsBelow(p, t, p.log2_root_size) <=> SiblingsFit(p, t)
BY DEF SiblingsBelow, SiblingsFit, ProofType

LEMMA NewProof ==
  ASSUME NEW root \in Nat, root <= Log2Root, NEW target \in Log2Leaf..root,
         NEW address \in Addresses
  PROVE  LET p == ProofOf(root, target, address) IN IsProof(p) /\ ProofType(p)
BY ProofSizesFact DEF ProofOf, IsProof, ProofType

\* Between calls only the two results matter.
LEMMA Idle ==
  /\ call = "none" /\ Shape /\ VerifyDecides /\ NewRootFits /\ SliceIsValid => ProofInv
  /\ (call = "none" /\ Shape /\ VerifyDecides /\ NewRootFits /\ SliceIsValid)' => ProofInv'
BY DEF ProofInv, GetInv, VerifyInv, BubbleInv, SliceInv, ChainInv

LEMMA ProofInitHolds == ProofInit => ProofInv
<1> SUFFICES ASSUME ProofInit PROVE ProofInv
  OBVIOUS
<1>1. PICK address \in Addresses : proof = ProofOf(Log2Root, Log2Root, address)
  BY DEF ProofInit, NoCallYet
<1>2. IsProof(proof) /\ ProofType(proof)
  BY <1>1, NewProof, ProofSizesFact
<1>3. Shape
  BY <1>2 DEF ProofInit, NoCallYet, Shape
<1> QED
  BY <1>3, Idle DEF ProofInit, NoCallYet, VerifyDecides, NewRootFits, SliceIsValid

-----------------------------------------------------------------------------
(* get_proof. *)

LEMMA RefuseKeeps == ASSUME NEW value, value = "out_of_range" PROVE ProofInv /\ Refuse(value) => ProofInv'
<1> SUFFICES ASSUME ProofInv, Refuse(value) PROVE ProofInv'
  OBVIOUS
<1>1. /\ call' = "none" /\ returned' = "out_of_range" /\ proof' = proof /\ sliced' = proof
      /\ UNCHANGED <<node, later>>
  BY DEF Refuse, End
<1>2. Shape'
  BY <1>1 DEF ProofInv, Shape, IsProof, ProofType
<1> QED
  BY <1>1, <1>2, Idle DEF VerifyDecides, NewRootFits, SliceIsValid

LEMMA GetProofKeeps ==
  ASSUME NEW address \in Addresses, NEW size \in Log2Leaf..(Log2Root + 1)
  PROVE  ProofInv /\ GetProof(address, size) => ProofInv'
<1> SUFFICES ASSUME ProofInv, GetProof(address, size) PROVE ProofInv'
  OBVIOUS
<1>1. CASE Refuse("out_of_range")
  BY <1>1, RefuseKeeps
<1>2. CASE ~Refuse("out_of_range")
  <2> DEFINE blank == ProofOf(Log2Root, size, address)
             p == [log2_root_size |-> Log2Root, log2_target_size |-> size,
                   address |-> address, target_hash |-> node[size][address[size]],
                   root_hash |-> node[Log2Root][0],
                   sibling_hashes |-> blank.sibling_hashes]
  <2>1. /\ ProofAllowed(address, size)
        /\ call' = "get_proof" /\ proof' = p /\ sliced' = p
        /\ log2_size' = size /\ hash' = NoHash /\ returned' = "nothing"
        /\ UNCHANGED <<node, later>>
    BY <1>2 DEF GetProof, ProofOf
  <2>2. /\ size \in Log2Leaf..Log2Root /\ InTree(address)
    BY <2>1 DEF ProofAllowed, Levels
  <2>3. /\ IsProof(p) /\ p.log2_root_size = Log2Root /\ p.log2_target_size = size
        /\ p.address = address /\ p.root_hash = node[Log2Root][0]
        /\ p.target_hash = node[size][address[size]]
        /\ p.sibling_hashes = blank.sibling_hashes
    BY DEF ProofOf, IsProof
  <2>4. ProofType(p)
    BY <2>2, <2>3, ProofSizesFact DEF ProofOf, ProofType
  <2> HIDE DEF p
  <2>5. Shape'
    BY <2>1, <2>2, <2>3, <2>4, ProofSizesFact DEF ProofInv, Shape
  <2>6. SiblingsBelow(p, node, size)
    BY <2>3, <2>4, NoSiblingYet
  <2>7. GetInv'
    BY <2>1, <2>2, <2>3, <2>6 DEF GetInv, RootFits, TargetFits, NodeAt, InTree
  <2> QED
    BY <2>1, <2>5, <2>7 DEF ProofInv, VerifyInv, BubbleInv, SliceInv, ChainInv,
                            VerifyDecides, NewRootFits, SliceIsValid
<1> QED
  BY <1>1, <1>2

LEMMA TakeSiblingKeeps == ProofInv /\ TakeSibling => ProofInv'
<1> SUFFICES ASSUME ProofInv, TakeSibling PROVE ProofInv'
  OBVIOUS
<1>1. /\ call = "get_proof" /\ log2_size < Log2Root
      /\ call' = "get_proof" /\ log2_size' = log2_size + 1
      /\ UNCHANGED <<node, later, sliced, hash, returned>>
  BY DEF TakeSibling
<1>2. /\ IsProof(proof) /\ ProofType(proof) /\ proof.log2_root_size = Log2Root
      /\ log2_size \in proof.log2_target_size..(Log2Root - 1)
  BY <1>1, ProofSizesFact DEF ProofInv, Shape, ProofType
<1> DEFINE siblings == [l \in DOMAIN proof.sibling_hashes |->
                          IF l = log2_size THEN SiblingHash(l, proof.address[l])
                                           ELSE proof.sibling_hashes[l]]
<1>3. proof' = [proof EXCEPT !.sibling_hashes = siblings]
  BY DEF TakeSibling
<1> HIDE DEF siblings
<1>4. /\ proof'.log2_root_size = proof.log2_root_size
      /\ proof'.log2_target_size = proof.log2_target_size
      /\ proof'.address = proof.address /\ proof'.target_hash = proof.target_hash
      /\ proof'.root_hash = proof.root_hash /\ proof'.sibling_hashes = siblings
      /\ IsProof(proof')
  BY <1>2, <1>3 DEF IsProof
<1>5. ProofType(proof')
  BY <1>2, <1>4 DEF ProofType, siblings
<1>6. Shape'
  BY <1>1, <1>2, <1>4, <1>5, ProofSizesFact DEF ProofInv, Shape, ProofType
<1>7. SiblingsBelow(proof', node, log2_size + 1)
  <2> SUFFICES ASSUME NEW l \in proof.log2_target_size..((log2_size + 1) - 1)
               PROVE  siblings[l] = node[l][Sibling(proof.address[l])]
    BY <1>4 DEF SiblingsBelow
  <2>1. l \in DOMAIN proof.sibling_hashes
    BY <1>2, ProofSizesFact DEF ProofType
  <2>2. CASE l = log2_size
    BY <2>1, <2>2 DEF siblings, SiblingHash
  <2>3. CASE l # log2_size
    <3>1. l \in proof.log2_target_size..(log2_size - 1)
      BY <1>2, <2>3, ProofSizesFact DEF ProofType
    <3> QED
      BY <1>1, <2>1, <2>3, <3>1 DEF ProofInv, GetInv, SiblingsBelow, siblings
  <2> QED
    BY <2>2, <2>3
<1>8. GetInv'
  BY <1>1, <1>4, <1>7 DEF ProofInv, GetInv, RootFits, TargetFits, NodeAt
<1> QED
  BY <1>1, <1>6, <1>8 DEF ProofInv, VerifyInv, BubbleInv, SliceInv, ChainInv,
                          VerifyDecides, NewRootFits, SliceIsValid

LEMMA EndGetProofKeeps == ProofInv /\ EndGetProof => ProofInv' /\ Fits(proof', node)
<1> SUFFICES ASSUME ProofInv, EndGetProof PROVE ProofInv' /\ Fits(proof', node)
  OBVIOUS
<1>1. /\ call = "get_proof" /\ log2_size = Log2Root
      /\ call' = "none" /\ returned' = "proof" /\ proof' = proof /\ sliced' = proof
      /\ UNCHANGED <<node, later>>
  BY DEF EndGetProof, End
<1>2. Shape'
  BY <1>1 DEF ProofInv, Shape, IsProof, ProofType
<1>3. Fits(proof, node)
  <2>1. SiblingsBelow(proof, node, proof.log2_root_size)
    BY <1>1 DEF ProofInv, GetInv, Shape
  <2>2. SiblingsFit(proof, node)
    BY <2>1, AllSiblings DEF ProofInv, Shape
  <2> QED
    BY <1>1, <2>2 DEF ProofInv, GetInv, Fits
<1> QED
  BY <1>1, <1>2, <1>3, Idle DEF VerifyDecides, NewRootFits, SliceIsValid

-----------------------------------------------------------------------------
(* verify and bubble_up. *)

LEMMA VerifyKeeps == ProofInv /\ Verify => ProofInv'
<1> SUFFICES ASSUME ProofInv, Verify PROVE ProofInv'
  OBVIOUS
<1>1. /\ call' = "verify" /\ log2_size' = proof.log2_target_size
      /\ hash' = proof.target_hash /\ returned' = "nothing"
      /\ UNCHANGED <<node, later, proof, sliced>>
  BY DEF Verify, StartBubbleUp
<1>2. ProofType(proof)
  BY DEF ProofInv, Shape
<1>3. Shape'
  <2>1. proof.log2_target_size \in proof.log2_target_size..proof.log2_root_size
    BY <1>2, ProofSizesFact DEF ProofType
  <2> QED
    BY <1>1, <2>1 DEF ProofInv, Shape, IsProof, ProofType
<1>4. VerifyInv'
  <2>1. \A t : SiblingsBelow(proof, t, proof.log2_target_size)
    BY <1>2, NoSiblingYet
  <2> QED
    BY <1>1, <2>1 DEF VerifyInv, TargetFits, NodeAt, SiblingsBelow
<1> QED
  BY <1>1, <1>3, <1>4 DEF ProofInv, GetInv, BubbleInv, SliceInv, ChainInv,
                          VerifyDecides, NewRootFits, SliceIsValid

LEMMA ReplaceTargetKeeps == ProofInv /\ ReplaceTarget => ProofInv'
<1> SUFFICES ASSUME ProofInv, ReplaceTarget PROVE ProofInv'
  OBVIOUS
<1>1. /\ call' = "bubble_up" /\ log2_size' = proof.log2_target_size
      /\ hash' = later[proof.log2_target_size][proof.address[proof.log2_target_size]]
      /\ returned' = "nothing" /\ InTree(proof.address)
      /\ UNCHANGED <<node, later, proof, sliced>>
  BY DEF ReplaceTarget, StartBubbleUp
<1>2. ProofType(proof)
  BY DEF ProofInv, Shape
<1>3. Shape'
  <2>1. proof.log2_target_size \in proof.log2_target_size..proof.log2_root_size
    BY <1>2, ProofSizesFact DEF ProofType
  <2> QED
    BY <1>1, <2>1 DEF ProofInv, Shape, IsProof, ProofType
<1>4. BubbleInv'
  BY <1>1 DEF BubbleInv, NodeAt
<1> QED
  BY <1>1, <1>3, <1>4 DEF ProofInv, GetInv, VerifyInv, SliceInv, ChainInv,
                          VerifyDecides, NewRootFits, SliceIsValid

LEMMA BubbleUpKeeps == ProofInv /\ BubbleUp => ProofInv'
<1> SUFFICES ASSUME ProofInv, BubbleUp PROVE ProofInv'
  OBVIOUS
<1>1. /\ call \in {"verify", "bubble_up", "verify_slice"} /\ log2_size < proof.log2_root_size
      /\ hash' = Climb(proof, log2_size, hash) /\ log2_size' = log2_size + 1
      /\ UNCHANGED <<node, later, call, proof, sliced, returned>>
  BY DEF BubbleUp, Bubbling
<1>2. /\ ProofType(proof) /\ node \in Trees /\ later \in Trees
      /\ log2_size \in proof.log2_target_size..(proof.log2_root_size - 1)
      /\ log2_size \in proof.log2_target_size..proof.log2_root_size
  BY <1>1, ProofSizesFact DEF ProofInv, Shape, ProofType
<1>3. Shape'
  <2>1. log2_size + 1 \in proof.log2_target_size..proof.log2_root_size
    BY <1>2, ProofSizesFact DEF ProofType
  <2> QED
    BY <1>1, <2>1 DEF ProofInv, Shape, IsProof, ProofType, InTree
<1>4. VerifyInv'
  <2> SUFFICES ASSUME call = "verify", InTree(proof.address), NEW t \in {node, later}
               PROVE  hash' = NodeAt(t, log2_size + 1, proof.address) <=>
                        TargetFits(proof, t) /\ SiblingsBelow(proof, t, log2_size + 1)
    BY <1>1 DEF VerifyInv
  <2>1. t \in Trees
    BY <1>2
  <2>2. hash = NodeAt(t, log2_size, proof.address) <=>
          TargetFits(proof, t) /\ SiblingsBelow(proof, t, log2_size)
    BY DEF ProofInv, VerifyInv
  <2>3. SiblingsBelow(proof, t, log2_size + 1) <=>
           SiblingsBelow(proof, t, log2_size)
             /\ proof.sibling_hashes[log2_size] = t[log2_size][Sibling(proof.address[log2_size])]
    BY <1>2, OneMoreSibling
  <2>4. hash' = NodeAt(t, log2_size + 1, proof.address) <=>
           /\ hash = NodeAt(t, log2_size, proof.address)
           /\ proof.sibling_hashes[log2_size] = t[log2_size][Sibling(proof.address[log2_size])]
    BY <1>1, <1>2, <2>1, ClimbIsExact
  <2> QED
    BY <2>2, <2>3, <2>4
<1>5. BubbleInv'
  <2> SUFFICES ASSUME call = "bubble_up", SiblingsBelow(proof, later, log2_size + 1)
               PROVE  hash' = NodeAt(later, log2_size + 1, proof.address)
    BY <1>1 DEF BubbleInv
  <2>1. InTree(proof.address)
    BY DEF ProofInv, Shape
  <2>2. /\ SiblingsBelow(proof, later, log2_size)
        /\ proof.sibling_hashes[log2_size] = later[log2_size][Sibling(proof.address[log2_size])]
    BY <1>2, OneMoreSibling
  <2>3. hash = NodeAt(later, log2_size, proof.address)
    BY <2>2 DEF ProofInv, BubbleInv
  <2> QED
    BY <1>1, <1>2, <2>1, <2>2, <2>3, ClimbIsExact
<1>6. ChainInv'
  <2> SUFFICES ASSUME call = "verify_slice"
               PROVE  \E c : /\ IsChain(c, proof, proof.log2_root_size)
                             /\ c[proof.log2_root_size] = proof.root_hash
                             /\ c[log2_size + 1] = hash'
    BY <1>1 DEF ChainInv
  <2>1. PICK c : /\ IsChain(c, proof, proof.log2_root_size)
                 /\ c[proof.log2_root_size] = proof.root_hash
                 /\ c[log2_size] = hash
    BY DEF ProofInv, ChainInv
  <2>2. c[log2_size + 1] = hash'
    BY <1>1, <1>2, <2>1 DEF IsChain
  <2> QED
    BY <2>1, <2>2
<1> QED
  BY <1>1, <1>3, <1>4, <1>5, <1>6
     DEF ProofInv, GetInv, SliceInv, VerifyDecides, NewRootFits, SliceIsValid

LEMMA EndBubbleUpKeeps == ProofInv /\ EndBubbleUp => ProofInv'
<1> SUFFICES ASSUME ProofInv, EndBubbleUp PROVE ProofInv'
  OBVIOUS
<1>1. /\ call \in {"verify", "bubble_up", "verify_slice"} /\ log2_size = proof.log2_root_size
      /\ call' = "none" /\ proof' = proof /\ sliced' = proof
      /\ UNCHANGED <<node, later>>
  BY DEF EndBubbleUp, Bubbling, End
<1>2. ProofType(proof)
  BY DEF ProofInv, Shape
<1>3. Shape'
  BY <1>1 DEF ProofInv, Shape, IsProof, ProofType
<1>4. CASE call = "verify"
  <2>1. returned' = IF hash = proof.root_hash THEN "valid" ELSE "invalid"
    BY <1>4 DEF EndBubbleUp, End
  <2>2. VerifyDecides'
    <3> SUFFICES ASSUME InTree(proof.address), NEW t \in {node, later}, RootFits(proof, t)
                 PROVE  hash = proof.root_hash <=> TargetFits(proof, t) /\ SiblingsFit(proof, t)
      BY <1>1, <2>1 DEF VerifyDecides
    <3>1. hash = NodeAt(t, log2_size, proof.address) <=>
            TargetFits(proof, t) /\ SiblingsBelow(proof, t, log2_size)
      BY <1>4 DEF ProofInv, VerifyInv
    <3> QED
      BY <1>1, <1>2, <3>1, AllSiblings DEF RootFits
  <2> QED
    BY <1>1, <1>3, <2>1, <2>2, Idle DEF NewRootFits, SliceIsValid
<1>5. CASE call = "bubble_up"
  <2>1. returned' = "hash" /\ hash' = hash
    BY <1>5 DEF EndBubbleUp, End
  <2>2. NewRootFits'
    <3> SUFFICES ASSUME SiblingsFit(proof, later)
                 PROVE  hash = NodeAt(later, proof.log2_root_size, proof.address)
      BY <1>1, <2>1 DEF NewRootFits
    <3>1. SiblingsBelow(proof, later, log2_size)
      BY <1>1, <1>2, AllSiblings
    <3> QED
      BY <1>1, <1>5, <3>1 DEF ProofInv, BubbleInv
  <2> QED
    BY <1>1, <1>3, <2>1, <2>2, Idle DEF VerifyDecides, SliceIsValid
<1>6. CASE call = "verify_slice"
  <2>1. hash = proof.root_hash
    BY <1>1, <1>6 DEF ProofInv, ChainInv
  <2>2. returned' = "proof"
    BY <1>6, <2>1 DEF EndBubbleUp, End
  <2> QED
    BY <1>1, <1>3, <2>2, Idle DEF VerifyDecides, NewRootFits, SliceIsValid
<1> QED
  BY <1>1, <1>4, <1>5, <1>6

-----------------------------------------------------------------------------
(* slice. *)

LEMMA SliceKeeps ==
  ASSUME NEW root \in 0..(Log2Root + 1), NEW target \in 0..(Log2Root + 1)
  PROVE  ProofInv /\ Slice(root, target) => ProofInv'
<1> SUFFICES ASSUME ProofInv, Slice(root, target) PROVE ProofInv'
  OBVIOUS
<1>1. CASE Refuse("out_of_range")
  BY <1>1, RefuseKeeps
<1>2. CASE ~Refuse("out_of_range")
  <2> DEFINE p == ProofOf(root, target, proof.address)
  <2>1. /\ SliceAllowed(root, target)
        /\ call' = "slice" /\ sliced' = p
        /\ log2_size' = proof.log2_target_size
        /\ hash' = proof.target_hash /\ returned' = "nothing"
        /\ UNCHANGED <<node, later, proof>>
    BY <1>2 DEF Slice
  <2>2. /\ ProofType(proof) /\ root \in Nat /\ target \in Log2Leaf..root
        /\ root <= proof.log2_root_size /\ root <= Log2Root
        /\ proof.log2_target_size <= target
        /\ proof.log2_target_size \in proof.log2_target_size..target
        /\ proof.address \in Addresses
    BY <2>1, ProofSizesFact DEF ProofInv, Shape, ProofType, SliceAllowed
  <2>3. IsProof(p) /\ ProofType(p)
    BY <2>2, NewProof
  <2>4. p.address = proof.address /\ p.log2_root_size = root /\ p.log2_target_size = target
    BY DEF ProofOf
  <2> HIDE DEF p
  <2>5. Shape'
    BY <2>1, <2>2, <2>3, <2>4 DEF ProofInv, Shape, IsProof, ProofType
  <2>6. SliceInv'
    BY <2>1 DEF SliceInv, TargetFits, NodeAt
  <2> QED
    BY <2>1, <2>5, <2>6 DEF ProofInv, GetInv, VerifyInv, BubbleInv, ChainInv,
                            VerifyDecides, NewRootFits, SliceIsValid
<1> QED
  BY <1>1, <1>2

\* The turn both loops of slice make.
LEMMA SliceClimbs ==
  ASSUME ProofInv, call \in {"slice", "slice_root"}, InTree(proof.address),
         log2_size \in proof.log2_target_size..(proof.log2_root_size - 1),
         NEW t \in {node, later}, TargetFits(proof, t), SiblingsFit(proof, t)
  PROVE  /\ Climb(proof, log2_size, hash) = NodeAt(t, log2_size + 1, proof.address)
         /\ proof.sibling_hashes[log2_size] = t[log2_size][Sibling(proof.address[log2_size])]
<1>1. ProofType(proof) /\ t \in Trees
  BY DEF ProofInv, Shape
<1>2. hash = NodeAt(t, log2_size, proof.address)
  BY DEF ProofInv, SliceInv
<1>3. proof.sibling_hashes[log2_size] = t[log2_size][Sibling(proof.address[log2_size])]
  BY <1>1 DEF SiblingsFit, ProofType
<1> QED
  BY <1>1, <1>2, <1>3, ClimbIsExact

LEMMA SliceTargetKeeps == ProofInv /\ SliceTarget => ProofInv'
<1> SUFFICES ASSUME ProofInv, SliceTarget PROVE ProofInv'
  OBVIOUS
<1>1. /\ call = "slice" /\ log2_size < sliced.log2_target_size
      /\ hash' = Climb(proof, log2_size, hash) /\ log2_size' = log2_size + 1
      /\ UNCHANGED <<node, later, call, proof, sliced, returned>>
  BY DEF SliceTarget
<1>2. /\ log2_size \in proof.log2_target_size..(proof.log2_root_size - 1)
      /\ log2_size + 1 \in proof.log2_target_size..sliced.log2_target_size
  BY <1>1, ProofSizesFact DEF ProofInv, Shape, ProofType
<1>3. Shape'
  BY <1>1, <1>2 DEF ProofInv, Shape, IsProof, ProofType
<1>4. SliceInv'
  BY <1>1, <1>2, SliceClimbs DEF SliceInv, TargetFits, SiblingsFit, NodeAt
<1> QED
  BY <1>1, <1>3, <1>4 DEF ProofInv, GetInv, VerifyInv, BubbleInv, ChainInv,
                          VerifyDecides, NewRootFits, SliceIsValid

LEMMA SetSlicedTargetKeeps == ProofInv /\ SetSlicedTarget => ProofInv'
<1> SUFFICES ASSUME ProofInv, SetSlicedTarget PROVE ProofInv'
  OBVIOUS
<1>1. /\ call = "slice" /\ log2_size = sliced.log2_target_size
      /\ call' = "slice_root" /\ sliced' = [sliced EXCEPT !.target_hash = hash]
      /\ UNCHANGED <<node, later, proof, log2_size, hash, returned>>
  BY DEF SetSlicedTarget, NewTarget
<1>2. /\ IsProof(sliced) /\ ProofType(sliced) /\ sliced.address = proof.address
  BY <1>1 DEF ProofInv, Shape
<1>3. /\ sliced'.log2_root_size = sliced.log2_root_size
      /\ sliced'.log2_target_size = sliced.log2_target_size
      /\ sliced'.address = sliced.address /\ sliced'.target_hash = hash
      /\ sliced'.sibling_hashes = sliced.sibling_hashes
      /\ IsProof(sliced')
  BY <1>1, <1>2 DEF IsProof
<1>4. ProofType(sliced')
  BY <1>2, <1>3 DEF ProofType
<1>5. Shape'
  <2>1. log2_size \in sliced.log2_target_size..sliced.log2_root_size
    BY <1>1, <1>2, ProofSizesFact DEF ProofType
  <2> QED
    BY <1>1, <1>3, <1>4, <2>1 DEF ProofInv, Shape, IsProof, ProofType
<1>6. \A t : SiblingsBelow(sliced', t, log2_size)
  BY <1>1, <1>3, <1>4, NoSiblingYet
<1>7. SliceInv'
  <2> SUFFICES ASSUME InTree(proof.address), NEW t \in {node, later},
                      TargetFits(proof, t), SiblingsFit(proof, t)
               PROVE  /\ hash = NodeAt(t, log2_size, proof.address)
                      /\ TargetFits(sliced', t) /\ SiblingsBelow(sliced', t, log2_size)
    BY <1>1 DEF SliceInv
  <2>1. hash = NodeAt(t, log2_size, proof.address)
    BY <1>1 DEF ProofInv, SliceInv
  <2> QED
    BY <1>1, <1>2, <1>3, <1>6, <2>1 DEF TargetFits
<1>8. ChainInv'
  <2> DEFINE c == [l \in {log2_size} |-> hash]
  <2>1. IsChain(c, sliced', log2_size)
    <3>1. sliced'.log2_target_size = log2_size /\ log2_size..(log2_size - 1) = {}
      BY <1>1, <1>2, <1>3, ProofSizesFact DEF ProofType
    <3> QED
      BY <1>3, <3>1 DEF IsChain
  <2>2. c[log2_size] = hash
    OBVIOUS
  <2> QED
    BY <1>1, <2>1, <2>2 DEF ChainInv
<1> QED
  BY <1>1, <1>5, <1>7, <1>8 DEF ProofInv, GetInv, VerifyInv, BubbleInv,
                                VerifyDecides, NewRootFits, SliceIsValid

LEMMA SliceRootKeeps == ProofInv /\ SliceRoot => ProofInv'
<1> SUFFICES ASSUME ProofInv, SliceRoot PROVE ProofInv'
  OBVIOUS
<1> DEFINE siblings == [l \in DOMAIN sliced.sibling_hashes |->
                          IF l = log2_size THEN proof.sibling_hashes[l]
                                           ELSE sliced.sibling_hashes[l]]
<1>1. /\ call = "slice_root" /\ log2_size < sliced.log2_root_size
      /\ hash' = Climb(proof, log2_size, hash)
      /\ sliced' = [sliced EXCEPT !.sibling_hashes = siblings]
      /\ log2_size' = log2_size + 1
      /\ UNCHANGED <<node, later, call, proof, returned>>
  BY DEF SliceRoot
<1>2. /\ ProofType(proof) /\ IsProof(sliced) /\ ProofType(sliced)
      /\ sliced.address = proof.address
      /\ log2_size \in proof.log2_target_size..(proof.log2_root_size - 1)
      /\ log2_size \in sliced.log2_target_size..(sliced.log2_root_size - 1)
      /\ log2_size \in sliced.log2_target_size..sliced.log2_root_size
      /\ log2_size + 1 \in sliced.log2_target_size..sliced.log2_root_size
  BY <1>1, ProofSizesFact DEF ProofInv, Shape, ProofType
<1>3. /\ siblings[log2_size] = proof.sibling_hashes[log2_size]
      /\ DOMAIN siblings = DOMAIN sliced.sibling_hashes
      /\ \A l \in sliced.log2_target_size..(log2_size - 1) : siblings[l] = sliced.sibling_hashes[l]
  BY <1>2, ProofSizesFact DEF ProofType
<1> HIDE DEF siblings
<1>4. /\ sliced'.log2_root_size = sliced.log2_root_size
      /\ sliced'.log2_target_size = sliced.log2_target_size
      /\ sliced'.address = sliced.address /\ sliced'.target_hash = sliced.target_hash
      /\ sliced'.sibling_hashes = siblings
      /\ IsProof(sliced')
  BY <1>1, <1>2 DEF IsProof
<1>5. ProofType(sliced')
  BY <1>2, <1>3, <1>4 DEF ProofType
<1>6. Shape'
  BY <1>1, <1>2, <1>4, <1>5 DEF ProofInv, Shape, IsProof, ProofType
<1>7. SliceInv'
  <2> SUFFICES ASSUME InTree(proof.address), NEW t \in {node, later},
                      TargetFits(proof, t), SiblingsFit(proof, t)
               PROVE  /\ hash' = NodeAt(t, log2_size + 1, proof.address)
                      /\ TargetFits(sliced', t) /\ SiblingsBelow(sliced', t, log2_size + 1)
    BY <1>1 DEF SliceInv
  <2>1. /\ hash' = NodeAt(t, log2_size + 1, proof.address)
        /\ proof.sibling_hashes[log2_size] = t[log2_size][Sibling(proof.address[log2_size])]
    BY <1>1, <1>2, SliceClimbs
  <2>2. TargetFits(sliced, t) /\ SiblingsBelow(sliced, t, log2_size)
    BY <1>1 DEF ProofInv, SliceInv
  <2>3. TargetFits(sliced', t)
    BY <1>4, <2>2 DEF TargetFits
  <2>4. SiblingsBelow(sliced', t, log2_size)
    BY <1>3, <1>4, <2>2 DEF SiblingsBelow
  <2>5. sliced'.sibling_hashes[log2_size] = t[log2_size][Sibling(sliced'.address[log2_size])]
    BY <1>2, <1>3, <1>4, <2>1
  <2> QED
    BY <1>2, <1>4, <1>5, <2>1, <2>3, <2>4, <2>5, OneMoreSibling
<1>8. ChainInv'
  <2>1. PICK c : IsChain(c, sliced, log2_size) /\ c[log2_size] = hash
    BY <1>1 DEF ProofInv, ChainInv
  <2> DEFINE d == [l \in sliced.log2_target_size..(log2_size + 1) |->
                     IF l = log2_size + 1 THEN hash' ELSE c[l]]
  <2>2. /\ sliced.log2_target_size \in Nat /\ log2_size \in Nat
        /\ sliced.log2_target_size <= log2_size
    BY <1>2, ProofSizesFact DEF ProofType
  <2>3. /\ d[log2_size + 1] = hash'
        /\ \A l \in sliced.log2_target_size..log2_size : d[l] = c[l]
    BY <2>2
  <2> HIDE DEF d
  <2>4. ASSUME NEW l \in sliced.log2_target_size..((log2_size + 1) - 1)
        PROVE  d[l + 1] = Climb(sliced', l, d[l])
    <3>1. CASE l = log2_size
      <4>1. d[l] = hash /\ d[l + 1] = Climb(proof, l, hash)
        BY <1>1, <2>1, <2>2, <2>3, <3>1
      <4> QED
        BY <1>2, <1>3, <1>4, <3>1, <4>1 DEF Climb
    <3>2. CASE l # log2_size
      <4>1. /\ l \in sliced.log2_target_size..(log2_size - 1)
            /\ l \in sliced.log2_target_size..log2_size
            /\ l + 1 \in sliced.log2_target_size..log2_size
        BY <2>2, <3>2
      <4>2. c[l + 1] = Climb(sliced, l, c[l])
        BY <2>1, <4>1 DEF IsChain
      <4>3. Climb(sliced', l, d[l]) = Climb(sliced, l, c[l])
        BY <1>3, <1>4, <2>3, <4>1 DEF Climb
      <4> QED
        BY <2>3, <4>1, <4>2, <4>3
    <3> QED
      BY <3>1, <3>2
  <2>5. d[sliced'.log2_target_size] = sliced'.target_hash
    BY <1>4, <2>1, <2>2, <2>3 DEF IsChain
  <2>6. IsChain(d, sliced', log2_size + 1)
    BY <1>4, <2>4, <2>5 DEF IsChain
  <2> QED
    BY <1>1, <2>3, <2>6 DEF ChainInv
<1> QED
  BY <1>1, <1>6, <1>7, <1>8 DEF ProofInv, GetInv, VerifyInv, BubbleInv,
                                VerifyDecides, NewRootFits, SliceIsValid

LEMMA VerifySliceKeeps ==
  ProofInv /\ VerifySlice =>
    /\ ProofInv'
    /\ \A t \in {node, later} : InTree(proof.address) /\ Fits(proof, t) => Fits(proof', t)
<1> SUFFICES ASSUME ProofInv, VerifySlice
             PROVE  /\ ProofInv'
                    /\ \A t \in {node, later} :
                         InTree(proof.address) /\ Fits(proof, t) => Fits(proof', t)
  OBVIOUS
<1>1. /\ call = "slice_root" /\ log2_size = sliced.log2_root_size
      /\ call' = "verify_slice" /\ proof' = [sliced EXCEPT !.root_hash = hash]
      /\ log2_size' = sliced.log2_target_size /\ hash' = sliced.target_hash
      /\ sliced' = proof'
      /\ UNCHANGED <<node, later, returned>>
  BY DEF VerifySlice
<1>2. IsProof(sliced) /\ ProofType(sliced) /\ sliced.address = proof.address
  BY <1>1 DEF ProofInv, Shape
<1>3. /\ proof'.log2_root_size = sliced.log2_root_size
      /\ proof'.log2_target_size = sliced.log2_target_size
      /\ proof'.address = sliced.address /\ proof'.target_hash = sliced.target_hash
      /\ proof'.sibling_hashes = sliced.sibling_hashes /\ proof'.root_hash = hash
      /\ IsProof(proof')
  BY <1>1, <1>2 DEF IsProof
<1>4. ProofType(proof')
  BY <1>2, <1>3 DEF ProofType
<1>5. Shape'
  <2>1. sliced.log2_target_size \in sliced.log2_target_size..sliced.log2_root_size
    BY <1>2, ProofSizesFact DEF ProofType
  <2> QED
    BY <1>1, <1>3, <1>4, <2>1 DEF ProofInv, Shape
<1>6. ChainInv'
  <2>1. PICK c : IsChain(c, sliced, log2_size) /\ c[log2_size] = hash
    BY <1>1 DEF ProofInv, ChainInv
  <2>2. IsChain(c, proof', proof'.log2_root_size)
    BY <1>1, <1>3, <2>1 DEF IsChain, Climb
  <2>3. c[proof'.log2_root_size] = proof'.root_hash /\ c[log2_size'] = hash'
    BY <1>1, <1>3, <2>1 DEF IsChain
  <2> QED
    BY <1>1, <2>2, <2>3 DEF ChainInv
<1>7. ASSUME NEW t \in {node, later}, InTree(proof.address), Fits(proof, t)
      PROVE  Fits(proof', t)
  <2>1. TargetFits(proof, t) /\ SiblingsFit(proof, t)
    BY <1>7 DEF Fits
  <2>2. /\ hash = NodeAt(t, log2_size, proof.address)
        /\ TargetFits(sliced, t) /\ SiblingsBelow(sliced, t, log2_size)
    BY <1>1, <1>7, <2>1 DEF ProofInv, SliceInv
  <2>3. RootFits(proof', t) /\ TargetFits(proof', t)
    BY <1>1, <1>2, <1>3, <2>2 DEF RootFits, TargetFits
  <2>4. SiblingsFit(sliced, t)
    BY <1>1, <1>2, <2>2, AllSiblings
  <2> QED
    BY <1>3, <2>3, <2>4 DEF Fits, SiblingsFit
<1> QED
  BY <1>1, <1>5, <1>6, <1>7 DEF ProofInv, GetInv, VerifyInv, BubbleInv, SliceInv,
                                VerifyDecides, NewRootFits, SliceIsValid

-----------------------------------------------------------------------------
(* The setters, and the specification. *)

LEMMA SetRootHashKeeps == ProofInv /\ SetRootHash => ProofInv'
<1> SUFFICES ASSUME ProofInv, SetRootHash PROVE ProofInv'
  OBVIOUS
<1> DEFINE h == NodeAt(later, proof.log2_root_size, proof.address)
<1>1. /\ call' = "none" /\ proof' = [proof EXCEPT !.root_hash = h]
      /\ sliced' = proof' /\ returned' = "nothing" /\ UNCHANGED <<node, later>>
  BY DEF SetRootHash
<1> HIDE DEF h
<1>2. IsProof(proof') /\ ProofType(proof')
  BY <1>1 DEF ProofInv, Shape, IsProof, ProofType
<1>3. Shape'
  BY <1>1, <1>2 DEF ProofInv, Shape
<1> QED
  BY <1>1, <1>3, Idle DEF VerifyDecides, NewRootFits, SliceIsValid

LEMMA SetTargetHashKeeps == ProofInv /\ SetTargetHash => ProofInv'
<1> SUFFICES ASSUME ProofInv, SetTargetHash PROVE ProofInv'
  OBVIOUS
<1> DEFINE h == NodeAt(later, proof.log2_target_size, proof.address)
<1>1. /\ call' = "none" /\ proof' = [proof EXCEPT !.target_hash = h]
      /\ sliced' = proof' /\ returned' = "nothing" /\ UNCHANGED <<node, later>>
  BY DEF SetTargetHash
<1> HIDE DEF h
<1>2. IsProof(proof') /\ ProofType(proof')
  BY <1>1 DEF ProofInv, Shape, IsProof, ProofType
<1>3. Shape'
  BY <1>1, <1>2 DEF ProofInv, Shape
<1> QED
  BY <1>1, <1>3, Idle DEF VerifyDecides, NewRootFits, SliceIsValid

LEMMA ProofNextHolds == ProofInv /\ [ProofNext]_proofVars => ProofInv'
<1> SUFFICES ASSUME ProofInv, [ProofNext]_proofVars PROVE ProofInv'
  OBVIOUS
<1>1. ASSUME NEW address \in Addresses, NEW size \in Log2Leaf..(Log2Root + 1),
             GetProof(address, size)
      PROVE  ProofInv'
  BY <1>1, GetProofKeeps
<1>2. ASSUME NEW root \in 0..(Log2Root + 1), NEW target \in 0..(Log2Root + 1),
             Slice(root, target)
      PROVE  ProofInv'
  BY <1>2, SliceKeeps
<1>3. CASE UNCHANGED proofVars
  BY <1>3 DEF proofVars, ProofInv, Shape, IsProof, ProofType, GetInv, VerifyInv, BubbleInv, SliceInv,
     ChainInv, IsChain, Climb, VerifyDecides, NewRootFits, SliceIsValid, SiblingsBelow,
     SiblingsFit, TargetFits, RootFits, NodeAt, InTree
<1> QED
  BY <1>1, <1>2, <1>3, TakeSiblingKeeps, EndGetProofKeeps, VerifyKeeps, ReplaceTargetKeeps,
     BubbleUpKeeps, EndBubbleUpKeeps, SliceTargetKeeps, SetSlicedTargetKeeps, SliceRootKeeps,
     VerifySliceKeeps, SetRootHashKeeps, SetTargetHashKeeps DEF ProofNext

LEMMA ProofInvariance == ProofSpec => []ProofInv
BY ProofInitHolds, ProofNextHolds, PTL DEF ProofSpec

\* verify accepts exactly the proofs of nodes of the tree whose root it is
\* given, for trees and proofs of every size.
THEOREM VerifyHolds == ProofSpec => []VerifyDecides
<1>1. ProofInv => VerifyDecides
  BY DEF ProofInv
<1> QED
  BY <1>1, ProofInvariance, PTL

\* bubble_up of a new target is the root of the tree that has it.
THEOREM NewRootHolds == ProofSpec => []NewRootFits
<1>1. ProofInv => NewRootFits
  BY DEF ProofInv
<1> QED
  BY <1>1, ProofInvariance, PTL

\* slice cannot throw that it produced an invalid proof.
THEOREM SliceValid == ProofSpec => []SliceIsValid
<1>1. ProofInv => SliceIsValid
  BY DEF ProofInv
<1> QED
  BY <1>1, ProofInvariance, PTL

\* get_proof returns a proof of the tree, and a slice of a good proof is a good
\* proof.
THEOREM ProofsGood == ProofSpec => ProofsFit
<1> DEFINE GetFits == call = "get_proof" /\ call' = "none" => Fits(proof', node)
           SliceFits == call = "slice_root" /\ call' = "verify_slice" =>
                          \A t \in {node, later} :
                            InTree(proof.address) /\ Fits(proof, t) => Fits(proof', t)
<1>1. ProofInv /\ ProofNext => GetFits
  <2> SUFFICES ASSUME ProofInv, ProofNext, call = "get_proof", call' = "none"
               PROVE  Fits(proof', node)
    OBVIOUS
  <2>1. EndGetProof
    BY DEF ProofNext, GetProof, Refuse, TakeSibling, Verify, ReplaceTarget, StartBubbleUp,
       BubbleUp, EndBubbleUp, Bubbling, Slice, SliceTarget, SetSlicedTarget, SliceRoot,
       VerifySlice, SetRootHash, SetTargetHash
  <2> QED
    BY <2>1, EndGetProofKeeps
<1>2. ProofInv /\ ProofNext => SliceFits
  <2> SUFFICES ASSUME ProofInv, ProofNext, call = "slice_root", call' = "verify_slice"
               PROVE  \A t \in {node, later} :
                        InTree(proof.address) /\ Fits(proof, t) => Fits(proof', t)
    OBVIOUS
  <2>1. VerifySlice
    BY DEF ProofNext, GetProof, Refuse, TakeSibling, EndGetProof, Verify, ReplaceTarget,
       StartBubbleUp, BubbleUp, EndBubbleUp, Bubbling, Slice, SliceTarget, SetSlicedTarget,
       SliceRoot, SetRootHash, SetTargetHash
  <2> QED
    BY <2>1, VerifySliceKeeps
<1>3. ProofInv /\ [ProofNext]_proofVars => [GetFits /\ SliceFits]_proofVars
  BY <1>1, <1>2
<1> QED
  BY <1>3, ProofInvariance, PTL DEF ProofSpec, ProofsFit
=============================================================================
