------------------------- MODULE BalanceTableProofs -------------------------
(***************************************************************************)
(* Proofs that the steps of BalanceTable keep a table well formed and act  *)
(* on it as an assignment acts on a map, for every size of the table.      *)
(***************************************************************************)
EXTENDS BalanceTable, FiniteSetTheorems, SequenceTheorems, TLAPS

-----------------------------------------------------------------------------
(* The map and the key lists. *)

\* What SwapOut leaves of a list without repetitions.
LEMMA SwapOutProperties ==
  ASSUME NEW S, NEW list \in Seq(S), NEW p \in 1..Len(list),
         \A i \in 1..Len(list) : list[i] = list[p] => i = p
  PROVE  /\ SwapOut(list, list[p]) \in Seq(S)
         /\ Len(SwapOut(list, list[p])) = Len(list) - 1
         /\ \A i \in 1..(Len(list) - 1) :
              SwapOut(list, list[p])[i] = IF i = p THEN list[Len(list)]
                                                   ELSE list[i]
  <1> DEFINE swapped == [list EXCEPT ![p] = list[Len(list)]]
  <1>1. /\ Len(list) \in Nat
        /\ DOMAIN list = 1..Len(list)
        /\ list[Len(list)] \in S
    BY LenProperties, ElementOfSeq
  <1>2. PositionOf(list, list[p]) = p
    BY <1>1 DEF PositionOf
  <1>3. /\ swapped \in Seq(S)
        /\ Len(swapped) = Len(list)
        /\ \A j \in 1..Len(list) :
             swapped[j] = IF j = p THEN list[Len(list)] ELSE list[j]
    BY <1>1, ExceptSeq
  <1>4. SwapOut(list, list[p]) = SubSeq(swapped, 1, Len(list) - 1)
    BY <1>2, <1>3 DEF SwapOut, Front, Last
  <1>5. \A i \in 1..(Len(list) - 1) : swapped[i] \in S
    BY <1>1, <1>3
  <1> HIDE DEF swapped
  <1>6. /\ SubSeq(swapped, 1, Len(list) - 1) \in Seq(S)
        /\ Len(SubSeq(swapped, 1, Len(list) - 1)) = Len(list) - 1
        /\ \A i \in 1..(Len(list) - 1) :
             SubSeq(swapped, 1, Len(list) - 1)[i] = swapped[i]
    BY <1>1, <1>5, SubSeqProperties
  <1>7. QED
    BY <1>1, <1>3, <1>4, <1>6

-----------------------------------------------------------------------------
(* Counting entries. *)

\* An entry more: the cardinality and the account's counter grow by one.
LEMMA InsertCounts ==
  ASSUME NEW s, NEW t, NEW k \in Key,
         IsFiniteSet(Entries(s)), CountsMatch(s),
         s.n_balances \in [AccountIds -> Nat],
         k \notin Entries(s), Entries(t) = {k} \cup Entries(s),
         t.n_balances = Count(s.n_balances, k[2], 1)
  PROVE  /\ IsFiniteSet(Entries(t))
         /\ Cardinality(Entries(t)) = Cardinality(Entries(s)) + 1
         /\ t.n_balances \in [AccountIds -> Nat]
         /\ CountsMatch(t)
  <1>1. /\ IsFiniteSet(Entries(t))
        /\ Cardinality(Entries(t)) = Cardinality(Entries(s)) + 1
    <2>1. Entries(t) = Entries(s) \cup {k}
      OBVIOUS
    <2>2. QED
      BY <2>1, FS_AddElement
  <1>2. k[2] \in AccountIds
    BY DEF Key
  <1>3. t.n_balances \in [AccountIds -> Nat]
    BY <1>2 DEF Count
  <1>4. ASSUME NEW u \in AccountIds
        PROVE  t.n_balances[u] = Cardinality(EntriesOf(t, u))
    <2>1. s.n_balances[u] = Cardinality(EntriesOf(s, u))
      BY DEF CountsMatch
    <2>2. IsFiniteSet(EntriesOf(s, u))
      BY FS_Subset DEF EntriesOf
    <2>3. CASE u = k[2]
      <3>1. EntriesOf(t, u) = EntriesOf(s, u) \cup {k}
        BY <2>3 DEF EntriesOf
      <3>2. k \notin EntriesOf(s, u)
        BY DEF EntriesOf
      <3>3. Cardinality(EntriesOf(t, u)) = Cardinality(EntriesOf(s, u)) + 1
        BY <2>2, <3>1, <3>2, FS_AddElement
      <3>4. QED
        BY <1>2, <2>1, <2>3, <3>3 DEF Count
    <2>4. CASE u # k[2]
      <3>1. EntriesOf(t, u) = EntriesOf(s, u)
        BY <2>4 DEF EntriesOf
      <3>2. QED
        BY <2>1, <2>4, <3>1 DEF Count
    <2>5. QED
      BY <2>3, <2>4
  <1>5. QED
    BY <1>1, <1>3, <1>4 DEF CountsMatch

\* An entry less.
LEMMA RemoveCounts ==
  ASSUME NEW s, NEW t, NEW k \in Key,
         IsFiniteSet(Entries(s)), CountsMatch(s),
         s.n_balances \in [AccountIds -> Nat],
         k \in Entries(s), Entries(t) = Entries(s) \ {k},
         t.n_balances = Count(s.n_balances, k[2], -1)
  PROVE  /\ IsFiniteSet(Entries(t))
         /\ Cardinality(Entries(t)) = Cardinality(Entries(s)) - 1
         /\ t.n_balances \in [AccountIds -> Nat]
         /\ CountsMatch(t)
  <1>1. /\ IsFiniteSet(Entries(t))
        /\ Cardinality(Entries(t)) = Cardinality(Entries(s)) - 1
    BY FS_RemoveElement
  <1>2. k[2] \in AccountIds
    BY DEF Key
  <1>3. ASSUME NEW u \in AccountIds
        PROVE  /\ t.n_balances[u] = Cardinality(EntriesOf(t, u))
               /\ t.n_balances[u] \in Nat
    <2>1. s.n_balances[u] = Cardinality(EntriesOf(s, u))
      BY DEF CountsMatch
    <2>2. IsFiniteSet(EntriesOf(s, u))
      BY FS_Subset DEF EntriesOf
    <2>3. CASE u = k[2]
      <3>1. EntriesOf(t, u) = EntriesOf(s, u) \ {k}
        BY <2>3 DEF EntriesOf
      <3>2. k \in EntriesOf(s, u)
        BY <2>3 DEF EntriesOf
      <3>3. /\ IsFiniteSet(EntriesOf(t, u))
            /\ Cardinality(EntriesOf(t, u)) = Cardinality(EntriesOf(s, u)) - 1
        BY <2>2, <3>1, <3>2, FS_RemoveElement
      <3>4. Cardinality(EntriesOf(t, u)) \in Nat
        BY <3>3, FS_CardinalityType
      <3>5. t.n_balances[u] = s.n_balances[u] - 1
        BY <1>2, <2>3 DEF Count
      <3>6. QED
        BY <2>1, <3>3, <3>4, <3>5
    <2>4. CASE u # k[2]
      <3>1. EntriesOf(t, u) = EntriesOf(s, u)
        BY <2>4 DEF EntriesOf
      <3>2. QED
        BY <2>1, <2>4, <3>1 DEF Count
    <2>5. QED
      BY <2>3, <2>4
  <1>4. t.n_balances \in [AccountIds -> Nat]
    BY <1>2, <1>3 DEF Count
  <1>5. QED
    BY <1>1, <1>3, <1>4 DEF CountsMatch

-----------------------------------------------------------------------------
(* Map and lists in step.  T is the kind of the entry that comes or goes,  *)
(* U any other kind.                                                       *)

\* The new key goes to the end of its list.
LEMMA AppendMatches ==
  ASSUME NEW s, NEW t, NEW k \in Key, NEW T, NEW list \in Seq(Key),
         k \notin Entries(s), ListMatchesMap(s, list, T),
         t.account_asset_balance =
           Insert(s.account_asset_balance, k, [type |-> T, at |-> Len(list) + 1])
  PROVE  ListMatchesMap(t, Append(list, k), T)
  <1>1. /\ Entries(t) = {k} \cup Entries(s)
        /\ t.account_asset_balance[k] = [type |-> T, at |-> Len(list) + 1]
        /\ \A j \in Entries(s) :
             t.account_asset_balance[j] = s.account_asset_balance[j]
    BY DEF Insert, Entries
  <1>2. /\ Append(list, k) \in Seq(Key)
        /\ DOMAIN list = 1..Len(list)
        /\ Len(list) \in Nat
        /\ DOMAIN Append(list, k) = 1..(Len(list) + 1)
        /\ \A i \in 1..Len(list) : Append(list, k)[i] = list[i]
        /\ Append(list, k)[Len(list) + 1] = k
    BY AppendProperties, LenProperties
  <1>3. \A j \in Entries(t) :
          t.account_asset_balance[j].type = T =>
            /\ At(t, j) \in DOMAIN Append(list, k)
            /\ Append(list, k)[At(t, j)] = j
    BY <1>1, <1>2 DEF ListMatchesMap, At
  <1>4. \A i \in DOMAIN Append(list, k) :
          /\ Append(list, k)[i] \in Entries(t)
          /\ t.account_asset_balance[Append(list, k)[i]].type = T
          /\ At(t, Append(list, k)[i]) = i
    BY <1>1, <1>2 DEF ListMatchesMap, At
  <1>5. QED
    BY <1>3, <1>4 DEF ListMatchesMap

\* The list of the other kind does not see it.
LEMMA InsertOther ==
  ASSUME NEW s, NEW t, NEW k, NEW T, NEW U, T # U, NEW at, NEW list,
         k \notin Entries(s), ListMatchesMap(s, list, U),
         t.account_asset_balance =
           Insert(s.account_asset_balance, k, [type |-> T, at |-> at])
  PROVE  ListMatchesMap(t, list, U)
  <1>1. /\ Entries(t) = {k} \cup Entries(s)
        /\ t.account_asset_balance[k].type = T
        /\ \A j \in Entries(s) :
             t.account_asset_balance[j] = s.account_asset_balance[j]
    BY DEF Insert, Entries
  <1>2. QED
    BY <1>1 DEF ListMatchesMap, At

\* What a drop does to the map: k goes, the last key of k's kind takes its
\* position, the other entries stay where they are.
DropsEntry(s, t, k, list, new_list) ==
  /\ Entries(t) = Entries(s) \ {k}
  /\ Last(list) \in Entries(s)
  /\ At(s, Last(list)) = Len(list)
  /\ s.account_asset_balance[Last(list)].type = s.account_asset_balance[k].type
  /\ At(s, k) \in 1..Len(list)
  /\ Len(list) \in Nat \ {0}
  /\ \A j \in Entries(t) :
       /\ t.account_asset_balance[j].type = s.account_asset_balance[j].type
       /\ At(t, j) = IF j = Last(list) THEN At(s, k) ELSE At(s, j)
  /\ new_list \in Seq(Key)
  /\ Len(new_list) = Len(list) - 1

LEMMA DropMap ==
  ASSUME NEW s, NEW t, NEW T, NEW U, T # U, NEW list \in Seq(Key), NEW other,
         TableType(s), NEW k \in Entries(s), s.account_asset_balance[k].type = T,
         ListMatchesMap(s, list, T), ListMatchesMap(s, other, U),
         t.account_asset_balance =
           Repoint(s.account_asset_balance, k, Last(list))
  PROVE  /\ DropsEntry(s, t, k, list, SwapOut(list, k))
         /\ t.account_asset_balance \in
              [Entries(t) -> [type: {"VIRTUAL", "WITHDRAWABLE"}, at: Nat \ {0}]]
         /\ ListMatchesMap(t, SwapOut(list, k), T)
         /\ ListMatchesMap(t, other, U)
  <1> DEFINE p == At(s, k)
  <1>1. /\ DOMAIN list = 1..Len(list)
        /\ Len(list) \in Nat
    BY LenProperties
  <1>2. p \in 1..Len(list) /\ list[p] = k
    BY <1>1 DEF ListMatchesMap
  <1>3. /\ Last(list) = list[Len(list)]
        /\ Len(list) \in 1..Len(list)
    BY <1>1, <1>2 DEF Last
  <1>4. /\ Last(list) \in Entries(s)
        /\ s.account_asset_balance[Last(list)].type = T
        /\ At(s, Last(list)) = Len(list)
    BY <1>1, <1>3 DEF ListMatchesMap
  <1>5. \A i \in 1..Len(list) : list[i] = list[p] => i = p
    <2>1. \A i \in 1..Len(list) : At(s, list[i]) = i
      BY <1>1 DEF ListMatchesMap
    <2>2. QED
      BY <1>2, <2>1
  <1> HIDE DEF p
  <1>6. /\ SwapOut(list, k) \in Seq(Key)
        /\ Len(SwapOut(list, k)) = Len(list) - 1
        /\ \A i \in 1..(Len(list) - 1) :
             SwapOut(list, k)[i] = IF i = p THEN Last(list) ELSE list[i]
    <2>1. /\ SwapOut(list, list[p]) \in Seq(Key)
          /\ Len(SwapOut(list, list[p])) = Len(list) - 1
          /\ \A i \in 1..(Len(list) - 1) :
               SwapOut(list, list[p])[i] = IF i = p THEN list[Len(list)]
                                                    ELSE list[i]
      BY <1>2, <1>5, SwapOutProperties
    <2>2. QED
      BY <1>2, <1>3, <2>1
  <1>7. DOMAIN SwapOut(list, k) = 1..(Len(list) - 1)
    BY <1>6, LenProperties
  <1>8. s.account_asset_balance =
          [j \in Entries(s) |-> s.account_asset_balance[j]]
    BY DEF TableType, Entries
  <1>9. /\ Entries(t) = Entries(s) \ {k}
        /\ \A j \in Entries(t) :
             t.account_asset_balance[j] =
               IF j = Last(list) THEN [type |-> T, at |-> p]
                                 ELSE s.account_asset_balance[j]
    <2> DEFINE map == s.account_asset_balance
               last == Last(list)
    <2>1. map[last].type = T /\ map[k].at = p
      BY <1>4 DEF At, p
    <2>2. /\ DOMAIN Repoint(map, k, last) = DOMAIN map \ {k}
          /\ \A j \in DOMAIN map \ {k} :
               Repoint(map, k, last)[j] =
                 IF j = last THEN [type |-> map[last].type, at |-> map[k].at]
                             ELSE map[j]
      <3>1. map = [j \in DOMAIN map |-> map[j]]
        BY <1>8 DEF Entries
      <3>2. k \in DOMAIN map /\ last \in DOMAIN map
        BY <1>4 DEF Entries
      <3> HIDE DEF map, last
      <3>3. QED
        BY <3>1, <3>2 DEF Repoint, Erase, Restrict
    <2>3. QED
      BY <2>1, <2>2 DEF Entries
  <1>10. ASSUME NEW j \in Entries(t), t.account_asset_balance[j].type = T
         PROVE  /\ At(t, j) \in DOMAIN SwapOut(list, k)
                /\ SwapOut(list, k)[At(t, j)] = j
    <2>1. j \in Entries(s) /\ j # k
      BY <1>9
    <2>2. CASE j = Last(list)
      <3>1. At(t, j) = p
        BY <1>9, <2>2 DEF At
      <3>2. p # Len(list)
        BY <1>2, <1>3, <2>1, <2>2
      <3>3. p \in 1..(Len(list) - 1)
        <4>1. Len(list) \in Nat /\ p \in 1..Len(list) /\ p # Len(list)
          BY <1>1, <1>2, <3>2
        <4>2. QED
          BY <4>1
      <3>4. QED
        BY <1>6, <1>7, <2>2, <3>1, <3>3
    <2>3. CASE j # Last(list)
      <3>1. t.account_asset_balance[j] = s.account_asset_balance[j]
        BY <1>9, <2>3
      <3>2. /\ At(t, j) = At(s, j)
            /\ At(s, j) \in 1..Len(list)
            /\ list[At(s, j)] = j
        BY <1>1, <1>10, <2>1, <3>1 DEF ListMatchesMap, At
      <3>3. At(s, j) # p /\ At(s, j) # Len(list)
        BY <1>2, <1>3, <2>1, <2>3, <3>2
      <3>4. QED
        BY <1>1, <1>6, <1>7, <3>2, <3>3
    <2>4. QED
      BY <2>2, <2>3
  <1>11. ASSUME NEW i \in DOMAIN SwapOut(list, k)
         PROVE  /\ SwapOut(list, k)[i] \in Entries(t)
                /\ t.account_asset_balance[SwapOut(list, k)[i]].type = T
                /\ At(t, SwapOut(list, k)[i]) = i
    <2>1. i \in 1..Len(list) /\ i # Len(list)
      BY <1>1, <1>7
    <2>2. /\ list[i] \in Entries(s)
          /\ s.account_asset_balance[list[i]].type = T
          /\ At(s, list[i]) = i
      BY <1>1, <2>1 DEF ListMatchesMap
    <2>3. CASE i = p
      <3>1. Last(list) # k
        BY <1>2, <1>3, <1>5, <2>1, <2>3
      <3>2. QED
        BY <1>4, <1>6, <1>7, <1>9, <2>3, <3>1 DEF At
    <2>4. CASE i # p
      <3>1. list[i] # k /\ list[i] # Last(list)
        BY <1>2, <1>4, <1>5, <2>1, <2>2, <2>4
      <3>2. QED
        BY <1>6, <1>7, <1>9, <2>2, <2>4, <3>1 DEF At
    <2>5. QED
      BY <2>3, <2>4
  <1>12. \A j \in Entries(t) :
           /\ t.account_asset_balance[j].type = s.account_asset_balance[j].type
           /\ At(t, j) = IF j = Last(list) THEN p ELSE At(s, j)
    BY <1>4, <1>9 DEF At
  <1>13. t.account_asset_balance \in
           [Entries(t) -> [type: {"VIRTUAL", "WITHDRAWABLE"}, at: Nat \ {0}]]
    <2>1. t.account_asset_balance = [j \in Entries(t) |-> t.account_asset_balance[j]]
      BY DEF Repoint, Erase, Restrict, Entries
    <2>2. \A j \in Entries(s) : s.account_asset_balance[j] \in
            [type: {"VIRTUAL", "WITHDRAWABLE"}, at: Nat \ {0}]
      BY DEF TableType
    <2>3. p \in Nat \ {0} /\ T \in {"VIRTUAL", "WITHDRAWABLE"}
      BY <2>2 DEF At, p
    <2>4. ASSUME NEW j \in Entries(t)
          PROVE  t.account_asset_balance[j] \in
                   [type: {"VIRTUAL", "WITHDRAWABLE"}, at: Nat \ {0}]
      BY <1>9, <2>2, <2>3
    <2>5. QED
      BY <2>1, <2>4
  <1>14. DropsEntry(s, t, k, list, SwapOut(list, k))
    BY <1>1, <1>2, <1>4, <1>6, <1>9, <1>12 DEF DropsEntry, p
  <1>15. ListMatchesMap(t, SwapOut(list, k), T)
    BY <1>10, <1>11 DEF ListMatchesMap
  <1>16. ListMatchesMap(t, other, U)
    <2>1. \A j \in Entries(t) :
            s.account_asset_balance[j].type = U => At(t, j) = At(s, j)
      BY <1>4, <1>12
    <2>2. \A i \in DOMAIN other : other[i] \in Entries(t)
      BY <1>9 DEF ListMatchesMap
    <2>3. QED
      BY <1>9, <1>12, <2>1, <2>2 DEF ListMatchesMap
  <1>17. QED
    BY <1>13, <1>14, <1>15, <1>16

-----------------------------------------------------------------------------
(* The steps of set_account_asset_balance.  Each keeps a table well formed *)
(* and has the effect of an assignment to one key of a map.                *)

\* The amount of k, and no other, is now `amount`.
Assigned(s, t, k, amount) ==
  \A j \in Key : BalanceOf(t, j) = IF j = k THEN amount ELSE BalanceOf(s, j)

\* The entries other than k are the same, of the same kind, and the records
\* they point to say the same.
OthersKept(s, t, k) ==
  /\ Entries(t) \ {k} = Entries(s) \ {k}
  /\ \A j \in Entries(t) \ {k} :
       /\ t.account_asset_balance[j].type = s.account_asset_balance[j].type
       /\ ~IsVirtual(s, j) =>
            t.balances[At(t, j)].header = s.balances[At(s, j)].header

\* A table whatever its free records hold: what an earlier ledger left in them
\* does not matter to any balance.
Whole(s) == TableType(s) /\ Packed(s) /\ WithinLimit(s) /\ CountsMatch(s)

LEMMA WellFormedIsWhole ==
  ASSUME NEW s
  PROVE  WellFormed(s) <=> Whole(s) /\ FreeRecordsZero(s)
  BY DEF WellFormed, Whole

\* The facts of a whole table the steps use.
LEMMA WholeFacts ==
  ASSUME NEW s, Whole(s)
  PROVE  /\ MaxBalances \in Nat
         /\ Len(s.last_balances) \in Nat
         /\ Len(s.last_virtual_balances) \in Nat
         /\ DOMAIN s.last_balances = 1..Len(s.last_balances)
         /\ DOMAIN s.last_virtual_balances = 1..Len(s.last_virtual_balances)
         /\ DOMAIN s.virtual_balances = 1..Len(s.last_virtual_balances)
         /\ Len(s.last_balances) <= MaxBalances
         /\ Cardinality(Entries(s)) \in Nat
         /\ \A j \in Entries(s) :
              /\ s.account_asset_balance[j].type \in {"VIRTUAL", "WITHDRAWABLE"}
              /\ IsVirtual(s, j) =>
                   At(s, j) \in 1..Len(s.last_virtual_balances)
              /\ ~IsVirtual(s, j) => At(s, j) \in 1..Len(s.last_balances)
  <1>1. /\ s.last_balances \in Seq(Key)
        /\ s.last_virtual_balances \in Seq(Key)
        /\ s.virtual_balances \in Seq(Amounts)
        /\ \A j \in Entries(s) :
             s.account_asset_balance[j].type \in {"VIRTUAL", "WITHDRAWABLE"}
    BY DEF Whole, TableType
  <1>2. /\ Len(s.last_balances) \in Nat
        /\ Len(s.last_virtual_balances) \in Nat
        /\ DOMAIN s.last_balances = 1..Len(s.last_balances)
        /\ DOMAIN s.last_virtual_balances = 1..Len(s.last_virtual_balances)
        /\ DOMAIN s.virtual_balances = 1..Len(s.last_virtual_balances)
    BY <1>1, LenProperties DEF Whole, Packed
  <1>3. Cardinality(Entries(s)) \in Nat
    BY FS_CardinalityType DEF Whole, WithinLimit
  <1>4. MaxBalances \in Nat /\ Len(s.last_balances) <= MaxBalances
    <2>1. /\ Cardinality(Entries(s)) =
               Len(s.last_balances) + Len(s.last_virtual_balances)
          /\ Cardinality(Entries(s)) <= MaxBalances
      BY DEF Whole, WithinLimit
    <2>2. MaxBalances \in Nat
      BY TableAssumption, TypesAssumption
    <2> DEFINE n == Cardinality(Entries(s))
               l == Len(s.last_balances)
               v == Len(s.last_virtual_balances)
    <2>3. n \in Nat /\ l \in Nat /\ v \in Nat /\ n = l + v /\ n <= MaxBalances
      BY <1>2, <1>3, <2>1
    <2> HIDE DEF n, l, v
    <2>4. l <= MaxBalances
      BY <2>2, <2>3
    <2>5. QED
      BY <2>2, <2>4 DEF l
  <1>5. ASSUME NEW j \in Entries(s)
        PROVE  /\ IsVirtual(s, j) =>
                    At(s, j) \in 1..Len(s.last_virtual_balances)
               /\ ~IsVirtual(s, j) => At(s, j) \in 1..Len(s.last_balances)
    BY <1>1, <1>2 DEF Whole, Packed, ListMatchesMap, IsVirtual
  <1>6. QED
    BY <1>1, <1>2, <1>3, <1>4, <1>5

\* A table that was not full has room for one entry more.
LEMMA GrowsWithinLimit ==
  ASSUME NEW s, NEW t, Whole(s), ~Full(s), IsFiniteSet(Entries(t)),
         Cardinality(Entries(t)) = Cardinality(Entries(s)) + 1,
         \/ /\ Len(t.last_balances) = Len(s.last_balances)
            /\ Len(t.last_virtual_balances) = Len(s.last_virtual_balances) + 1
         \/ /\ Len(t.last_balances) = Len(s.last_balances) + 1
            /\ Len(t.last_virtual_balances) = Len(s.last_virtual_balances)
  PROVE  WithinLimit(t)
  <1> DEFINE n == Cardinality(Entries(t))
             m == Cardinality(Entries(s))
             l == Len(s.last_balances)
             v == Len(s.last_virtual_balances)
             l2 == Len(t.last_balances)
             v2 == Len(t.last_virtual_balances)
  <1>1. /\ m \in Nat /\ l \in Nat /\ v \in Nat /\ MaxBalances \in Nat
        /\ m = l + v /\ n = m + 1
        /\ (l2 = l /\ v2 = v + 1) \/ (l2 = l + 1 /\ v2 = v)
        /\ ~(m >= MaxBalances)
    BY WholeFacts DEF Whole, WithinLimit, Full
  <1> HIDE DEF n, m, l, v, l2, v2
  <1>2. n = l2 + v2 /\ n <= MaxBalances
    BY <1>1
  <1>3. QED
    BY <1>2 DEF n, l2, v2, WithinLimit

LEMMA ShrinksWithinLimit ==
  ASSUME NEW s, NEW t, Whole(s), IsFiniteSet(Entries(t)),
         Cardinality(Entries(t)) = Cardinality(Entries(s)) - 1,
         \/ /\ Len(t.last_balances) = Len(s.last_balances)
            /\ Len(t.last_virtual_balances) = Len(s.last_virtual_balances) - 1
         \/ /\ Len(t.last_balances) = Len(s.last_balances) - 1
            /\ Len(t.last_virtual_balances) = Len(s.last_virtual_balances)
  PROVE  WithinLimit(t)
  <1> DEFINE n == Cardinality(Entries(t))
             m == Cardinality(Entries(s))
             l == Len(s.last_balances)
             v == Len(s.last_virtual_balances)
             l2 == Len(t.last_balances)
             v2 == Len(t.last_virtual_balances)
  <1>1. /\ m \in Nat /\ l \in Nat /\ v \in Nat /\ MaxBalances \in Nat
        /\ m = l + v /\ n = m - 1 /\ m <= MaxBalances
        /\ (l2 = l /\ v2 = v - 1) \/ (l2 = l - 1 /\ v2 = v)
    BY WholeFacts DEF Whole, WithinLimit
  <1> HIDE DEF n, m, l, v, l2, v2
  <1>2. n = l2 + v2 /\ n <= MaxBalances
    BY <1>1
  <1>3. QED
    BY <1>2 DEF n, l2, v2, WithinLimit

\* A new entry in virtual_balances.
LEMMA NewVirtualKeeps ==
  ASSUME NEW s, Whole(s), NEW k \in Key, k \notin Entries(s), ~Full(s),
         NEW amount \in Amounts,
         NEW t, t = NewVirtual(s, k, amount)
  PROVE  /\ Whole(t)
         /\ FreeRecordsZero(s) => FreeRecordsZero(t)
         /\ Assigned(s, t, k, amount)
         /\ OthersKept(s, t, k)
         /\ Entries(t) = Entries(s) \cup {k} /\ IsVirtual(t, k)
  <1> DEFINE at == Len(s.last_virtual_balances) + 1
  <1>1. /\ t.account_asset_balance =
             Insert(s.account_asset_balance, k, [type |-> "VIRTUAL", at |-> at])
        /\ t.balances = s.balances
        /\ t.last_balances = s.last_balances
        /\ t.virtual_balances = Append(s.virtual_balances, amount)
        /\ t.last_virtual_balances = Append(s.last_virtual_balances, k)
        /\ t.n_balances = Count(s.n_balances, k[2], 1)
    BY DEF NewVirtual, Table, Whole, Packed
  <1>2. t = Table(t.account_asset_balance, t.balances, t.last_balances,
                  t.virtual_balances, t.last_virtual_balances, t.n_balances)
    BY DEF NewVirtual, Table
  <1>3. /\ Entries(t) = {k} \cup Entries(s)
        /\ t.account_asset_balance[k] = [type |-> "VIRTUAL", at |-> at]
        /\ \A j \in Entries(s) :
             t.account_asset_balance[j] = s.account_asset_balance[j]
    BY <1>1 DEF Insert, Entries
  <1>4. /\ s.last_balances \in Seq(Key)
        /\ s.last_virtual_balances \in Seq(Key)
        /\ s.virtual_balances \in Seq(Amounts)
    BY DEF Whole, TableType
  <1>5. /\ t.virtual_balances \in Seq(Amounts)
        /\ t.last_virtual_balances \in Seq(Key)
        /\ Len(t.virtual_balances) = at
        /\ Len(t.last_virtual_balances) = at
        /\ t.virtual_balances[at] = amount
        /\ \A i \in 1..Len(s.last_virtual_balances) :
             t.virtual_balances[i] = s.virtual_balances[i]
    BY <1>1, <1>4, AppendProperties DEF Whole, Packed
  <1>6. /\ IsFiniteSet(Entries(t))
        /\ Cardinality(Entries(t)) = Cardinality(Entries(s)) + 1
        /\ t.n_balances \in [AccountIds -> Nat]
        /\ CountsMatch(t)
    BY <1>1, <1>3, InsertCounts DEF Whole, TableType, WithinLimit
  <1>7. TableType(t)
    <2>1. /\ Entries(t) \subseteq Key
          /\ t.account_asset_balance \in
               [Entries(t) -> [type: {"VIRTUAL", "WITHDRAWABLE"}, at: Nat \ {0}]]
      <3>1. at \in Nat \ {0}
        BY WholeFacts
      <3> HIDE DEF at
      <3>2. t.account_asset_balance = [j \in Entries(t) |-> t.account_asset_balance[j]]
        BY <1>1 DEF Insert, Entries
      <3>3. /\ Entries(s) \subseteq Key
            /\ \A j \in Entries(s) : s.account_asset_balance[j] \in
                 [type: {"VIRTUAL", "WITHDRAWABLE"}, at: Nat \ {0}]
        BY DEF Whole, TableType
      <3>4. QED
        BY <1>3, <3>1, <3>2, <3>3
    <2>2. QED
      BY <1>1, <1>2, <1>4, <1>5, <1>6, <2>1 DEF Whole, TableType
  <1>8. Packed(t)
    <2>1. ListMatchesMap(t, t.last_virtual_balances, "VIRTUAL")
      BY <1>1, <1>4, AppendMatches DEF Whole, Packed
    <2>2. ListMatchesMap(t, t.last_balances, "WITHDRAWABLE")
      <3>1. "VIRTUAL" # "WITHDRAWABLE"
        OBVIOUS
      <3>2. QED
        BY <1>1, <3>1, InsertOther DEF Whole, Packed
    <2>3. QED
      BY <1>5, <2>1, <2>2 DEF Packed
  <1>9. WithinLimit(t)
    BY <1>1, <1>5, <1>6, GrowsWithinLimit
  <1>10. FreeRecordsZero(s) => FreeRecordsZero(t)
    BY <1>1 DEF FreeRecordsZero
  <1>11. ASSUME NEW j \in Key
         PROVE  BalanceOf(t, j) = IF j = k THEN amount ELSE BalanceOf(s, j)
    <2>1. CASE j = k
      BY <1>3, <1>5, <2>1 DEF BalanceOf, IsVirtual, At
    <2>2. CASE j \in Entries(s)
      <3>1. /\ j # k
            /\ t.account_asset_balance[j] = s.account_asset_balance[j]
        BY <1>3, <2>2
      <3>2. IsVirtual(s, j) => t.virtual_balances[At(s, j)] = s.virtual_balances[At(s, j)]
        BY <1>5, <2>2, WholeFacts
      <3>3. QED
        BY <1>1, <1>3, <2>2, <3>1, <3>2 DEF BalanceOf, IsVirtual, At
    <2>3. CASE j # k /\ j \notin Entries(s)
      BY <1>3, <2>3 DEF BalanceOf
    <2>4. QED
      BY <2>1, <2>2, <2>3
  <1>12. OthersKept(s, t, k)
    BY <1>1, <1>3 DEF OthersKept, IsVirtual, At
  <1>13. QED
    BY <1>3, <1>6, <1>7, <1>8, <1>9, <1>10, <1>11, <1>12
       DEF Whole, IsVirtual, Assigned

\* What a record can say of a balance: no token fields its type has not.
Describes(header) ==
  /\ header \in Header
  /\ ~HasToken(header.type) => header.token_address = Zero
  /\ ~HasTokenId(header.type) => header.token_id = Zero

\* Over a zeroed record the header written is the one given; over any other it is
\* one of the same balance, with token fields its type has not.
LEMMA WriteRecordType ==
  ASSUME NEW old \in [header: Header, amount: Amounts],
         NEW header, Describes(header), NEW amount \in Amounts
  PROVE  /\ WriteRecord(old, header, amount) \in [header: Header, amount: Amounts]
         /\ WriteRecord(old, header, amount).amount = amount
         /\ old = ZeroRecord => WriteRecord(old, header, amount).header = header
  <1> DEFINE w == WriteRecord(old, header, amount)
             written == [type |-> header.type, owner |-> header.owner,
                         token_address |-> IF HasToken(header.type)
                                           THEN header.token_address
                                           ELSE old.header.token_address,
                         token_id |-> IF HasTokenId(header.type)
                                      THEN header.token_id
                                      ELSE old.header.token_id]
  <1>1. /\ header = [type |-> header.type, owner |-> header.owner,
                     token_address |-> header.token_address,
                     token_id |-> header.token_id]
        /\ header \in Header /\ old.header \in Header
    BY DEF Describes, Header
  <1>2. w.header = written /\ w.amount = amount
    BY DEF WriteRecord
  <1>3. written \in Header
    BY <1>1 DEF Header
  <1>4. w \in [header: Header, amount: Amounts]
    BY <1>2, <1>3 DEF WriteRecord
  <1>5. ASSUME old = ZeroRecord
        PROVE  written = header
    <2>1. /\ old.header.token_address = Zero
          /\ old.header.token_id = Zero
      BY <1>5 DEF ZeroRecord, NoHeader
    <2>2. written = [type |-> header.type, owner |-> header.owner,
                     token_address |-> header.token_address,
                     token_id |-> header.token_id]
      BY <2>1 DEF Describes
    <2>3. QED
      BY <1>1, <2>2
  <1>6. QED
    BY <1>2, <1>4, <1>5

\* A new entry in the first free record of `balances`.
LEMMA NewWithdrawableKeeps ==
  ASSUME NEW s, Whole(s), NEW k \in Key, k \notin Entries(s), ~Full(s),
         NEW header, Describes(header), NEW amount \in Amounts,
         NEW t, t = NewWithdrawable(s, k, header, amount)
  PROVE  /\ Whole(t)
         /\ FreeRecordsZero(s) => FreeRecordsZero(t)
         /\ Assigned(s, t, k, amount)
         /\ OthersKept(s, t, k)
         /\ Entries(t) = Entries(s) \cup {k} /\ ~IsVirtual(t, k)
         /\ FreeRecordsZero(s) => t.balances[At(t, k)].header = header
  <1> DEFINE at == Len(s.last_balances) + 1
             new == WriteRecord(s.balances[at], header, amount)
  <1>1. /\ t.account_asset_balance =
             Insert(s.account_asset_balance, k, [type |-> "WITHDRAWABLE", at |-> at])
        /\ t.balances = [s.balances EXCEPT ![at] = new]
        /\ t.last_balances = Append(s.last_balances, k)
        /\ t.virtual_balances = s.virtual_balances
        /\ t.last_virtual_balances = s.last_virtual_balances
        /\ t.n_balances = Count(s.n_balances, k[2], 1)
    BY DEF NewWithdrawable, Table
  <1>2. t = Table(t.account_asset_balance, t.balances, t.last_balances,
                  t.virtual_balances, t.last_virtual_balances, t.n_balances)
    BY DEF NewWithdrawable, Table
  <1>3. /\ Entries(t) = {k} \cup Entries(s)
        /\ t.account_asset_balance[k] = [type |-> "WITHDRAWABLE", at |-> at]
        /\ \A j \in Entries(s) :
             t.account_asset_balance[j] = s.account_asset_balance[j]
    BY <1>1 DEF Insert, Entries
  <1>4. /\ s.last_balances \in Seq(Key)
        /\ s.last_virtual_balances \in Seq(Key)
        /\ s.virtual_balances \in Seq(Amounts)
        /\ s.balances \in [1..MaxBalances -> [header: Header, amount: Amounts]]
    BY DEF Whole, TableType
  <1>5. /\ t.last_balances \in Seq(Key)
        /\ Len(t.last_balances) = at
    BY <1>1, <1>4, AppendProperties
  <1>6. /\ IsFiniteSet(Entries(t))
        /\ Cardinality(Entries(t)) = Cardinality(Entries(s)) + 1
        /\ t.n_balances \in [AccountIds -> Nat]
        /\ CountsMatch(t)
    BY <1>1, <1>3, InsertCounts DEF Whole, TableType, WithinLimit
  <1>7. WithinLimit(t)
    BY <1>1, <1>5, <1>6, GrowsWithinLimit
  <1>8. at \in 1..MaxBalances
    <2> DEFINE n == Cardinality(Entries(s))
               l == Len(s.last_balances)
               v == Len(s.last_virtual_balances)
    <2>1. /\ n \in Nat /\ l \in Nat /\ v \in Nat /\ MaxBalances \in Nat
          /\ n = l + v /\ ~(n >= MaxBalances)
      BY WholeFacts DEF Whole, WithinLimit, Full
    <2> HIDE DEF n, l, v
    <2>2. l + 1 \in 1..MaxBalances
      BY <2>1
    <2>3. QED
      BY <2>2 DEF l
  <1>9. /\ new \in [header: Header, amount: Amounts]
        /\ new.amount = amount
        /\ FreeRecordsZero(s) => new.header = header
    <2>1. s.balances[at] \in [header: Header, amount: Amounts]
      BY <1>4, <1>8
    <2>2. FreeRecordsZero(s) => s.balances[at] = ZeroRecord
      <3>1. at > Len(s.last_balances)
        BY WholeFacts
      <3>2. QED
        BY <1>8, <3>1 DEF FreeRecordsZero
    <2>3. QED
      BY <2>1, <2>2, WriteRecordType
  <1> HIDE DEF new
  <1>10. /\ t.balances \in [1..MaxBalances -> [header: Header, amount: Amounts]]
         /\ t.balances[at] = new
         /\ \A i \in 1..MaxBalances \ {at} : t.balances[i] = s.balances[i]
    BY <1>1, <1>4, <1>8, <1>9
  <1>11. TableType(t)
    <2>1. /\ Entries(t) \subseteq Key
          /\ t.account_asset_balance \in
               [Entries(t) -> [type: {"VIRTUAL", "WITHDRAWABLE"}, at: Nat \ {0}]]
      <3>1. at \in Nat \ {0}
        BY WholeFacts
      <3> HIDE DEF at
      <3>2. t.account_asset_balance = [j \in Entries(t) |-> t.account_asset_balance[j]]
        BY <1>1 DEF Insert, Entries
      <3>3. /\ Entries(s) \subseteq Key
            /\ \A j \in Entries(s) : s.account_asset_balance[j] \in
                 [type: {"VIRTUAL", "WITHDRAWABLE"}, at: Nat \ {0}]
        BY DEF Whole, TableType
      <3>4. QED
        BY <1>3, <3>1, <3>2, <3>3
    <2>2. QED
      BY <1>1, <1>2, <1>4, <1>5, <1>6, <1>10, <2>1 DEF TableType
  <1>12. Packed(t)
    <2>1. ListMatchesMap(t, t.last_balances, "WITHDRAWABLE")
      BY <1>1, <1>4, AppendMatches DEF Whole, Packed
    <2>2. ListMatchesMap(t, t.last_virtual_balances, "VIRTUAL")
      <3>1. "VIRTUAL" # "WITHDRAWABLE"
        OBVIOUS
      <3>2. QED
        BY <1>1, <3>1, InsertOther DEF Whole, Packed
    <2>3. QED
      BY <1>1, <2>1, <2>2 DEF Whole, Packed
  <1>13. FreeRecordsZero(s) => FreeRecordsZero(t)
    <2>1. ASSUME FreeRecordsZero(s), NEW i \in 1..MaxBalances, i > Len(t.last_balances)
          PROVE  t.balances[i] = ZeroRecord
      <3>1. i # at /\ i > Len(s.last_balances)
        BY <1>5, <2>1, WholeFacts
      <3>2. s.balances[i] = ZeroRecord
        BY <2>1, <3>1 DEF FreeRecordsZero
      <3>3. QED
        BY <1>10, <3>1, <3>2
    <2>2. QED
      BY <2>1 DEF FreeRecordsZero
  <1>14. \A j \in Entries(s) :
           ~IsVirtual(s, j) => t.balances[At(s, j)] = s.balances[At(s, j)]
    <2>1. ASSUME NEW j \in Entries(s), ~IsVirtual(s, j)
          PROVE  t.balances[At(s, j)] = s.balances[At(s, j)]
      <3>1. /\ At(s, j) \in 1..Len(s.last_balances)
            /\ Len(s.last_balances) \in Nat
            /\ MaxBalances \in Nat
        BY <2>1, WholeFacts
      <3>2. At(s, j) \in 1..MaxBalances /\ At(s, j) # at
        BY <1>8, <3>1
      <3>3. QED
        BY <1>10, <3>2
    <2>2. QED
      BY <2>1
  <1>15. ASSUME NEW j \in Key
         PROVE  BalanceOf(t, j) = IF j = k THEN amount ELSE BalanceOf(s, j)
    <2>1. CASE j = k
      BY <1>3, <1>9, <1>10, <2>1 DEF BalanceOf, IsVirtual, At
    <2>2. CASE j \in Entries(s)
      <3>1. /\ j # k
            /\ t.account_asset_balance[j] = s.account_asset_balance[j]
        BY <1>3, <2>2
      <3>2. QED
        BY <1>1, <1>3, <1>14, <2>2, <3>1 DEF BalanceOf, IsVirtual, At
    <2>3. CASE j # k /\ j \notin Entries(s)
      BY <1>3, <2>3 DEF BalanceOf
    <2>4. QED
      BY <2>1, <2>2, <2>3
  <1>16. OthersKept(s, t, k)
    BY <1>3, <1>14 DEF OthersKept, IsVirtual, At
  <1>17. /\ ~IsVirtual(t, k)
         /\ FreeRecordsZero(s) => t.balances[At(t, k)].header = header
    BY <1>3, <1>9, <1>10 DEF IsVirtual, At
  <1>18. QED
    BY <1>3, <1>6, <1>7, <1>11, <1>12, <1>13, <1>15, <1>16, <1>17
       DEF Whole, Assigned

\* Two entries of one kind do not share a position.
LEMMA PositionsDiffer ==
  ASSUME NEW s, Whole(s), NEW i \in Entries(s), NEW j \in Entries(s),
         i # j, IsVirtual(s, i) <=> IsVirtual(s, j)
  PROVE  At(s, i) # At(s, j)
  <1>1. /\ s.account_asset_balance[i].type \in {"VIRTUAL", "WITHDRAWABLE"}
        /\ s.account_asset_balance[j].type \in {"VIRTUAL", "WITHDRAWABLE"}
    BY WholeFacts
  <1>2. CASE IsVirtual(s, i)
    BY <1>2 DEF Whole, Packed, ListMatchesMap, IsVirtual
  <1>3. CASE ~IsVirtual(s, i)
    BY <1>1, <1>3 DEF Whole, Packed, ListMatchesMap, IsVirtual
  <1>4. QED
    BY <1>2, <1>3

\* The same entries at the same places: the map and the lists did not change.
LEMMA SameEntries ==
  ASSUME NEW s, NEW t, Whole(s),
         t.account_asset_balance = s.account_asset_balance,
         t.last_balances = s.last_balances,
         t.last_virtual_balances = s.last_virtual_balances,
         t.n_balances = s.n_balances,
         Len(t.virtual_balances) = Len(s.virtual_balances)
  PROVE  Packed(t) /\ WithinLimit(t) /\ CountsMatch(t)
  <1>1. /\ Entries(t) = Entries(s)
        /\ \A j : At(t, j) = At(s, j)
        /\ \A u : EntriesOf(t, u) = EntriesOf(s, u)
    BY DEF Entries, EntriesOf, At
  <1>2. Packed(t)
    BY <1>1 DEF Whole, Packed, ListMatchesMap
  <1>3. WithinLimit(t)
    BY <1>1 DEF Whole, WithinLimit
  <1>4. CountsMatch(t)
    BY <1>1 DEF Whole, CountsMatch
  <1>5. QED
    BY <1>2, <1>3, <1>4

LEMMA OverwriteVirtualKeeps ==
  ASSUME NEW s, Whole(s), NEW k \in Entries(s), IsVirtual(s, k),
         NEW amount \in Amounts,
         NEW t, t = OverwriteVirtual(s, k, amount)
  PROVE  /\ Whole(t)
         /\ FreeRecordsZero(s) => FreeRecordsZero(t)
         /\ Assigned(s, t, k, amount)
         /\ OthersKept(s, t, k)
         /\ Entries(t) = Entries(s)
         /\ \A j \in Entries(s) :
              /\ IsVirtual(t, j) <=> IsVirtual(s, j)
              /\ At(t, j) = At(s, j)
         /\ t.balances = s.balances
  <1>1. /\ t.account_asset_balance = s.account_asset_balance
        /\ t.balances = s.balances
        /\ t.last_balances = s.last_balances
        /\ t.virtual_balances = [s.virtual_balances EXCEPT ![At(s, k)] = amount]
        /\ t.last_virtual_balances = s.last_virtual_balances
        /\ t.n_balances = s.n_balances
    BY DEF OverwriteVirtual, Table
  <1>2. t = Table(t.account_asset_balance, t.balances, t.last_balances,
                  t.virtual_balances, t.last_virtual_balances, t.n_balances)
    BY DEF OverwriteVirtual, Table
  <1>3. /\ At(s, k) \in 1..Len(s.virtual_balances)
        /\ s.virtual_balances \in Seq(Amounts)
    BY WholeFacts DEF Whole, TableType, Packed
  <1>4. /\ t.virtual_balances \in Seq(Amounts)
        /\ Len(t.virtual_balances) = Len(s.virtual_balances)
        /\ \A i \in 1..Len(s.virtual_balances) :
             t.virtual_balances[i] = IF i = At(s, k) THEN amount
                                     ELSE s.virtual_balances[i]
    BY <1>1, <1>3, ExceptSeq
  <1>5. /\ Entries(t) = Entries(s)
        /\ \A j \in Entries(s) :
              /\ IsVirtual(t, j) <=> IsVirtual(s, j)
              /\ At(t, j) = At(s, j)
    BY <1>1 DEF Entries, IsVirtual, At
  <1>6. TableType(t)
    BY <1>1, <1>2, <1>4, <1>5 DEF Whole, TableType
  <1>7. Packed(t) /\ WithinLimit(t) /\ CountsMatch(t)
    BY <1>1, <1>4, SameEntries
  <1>8. FreeRecordsZero(s) => FreeRecordsZero(t)
    BY <1>1 DEF FreeRecordsZero
  <1>9. ASSUME NEW j \in Key
        PROVE  BalanceOf(t, j) = IF j = k THEN amount ELSE BalanceOf(s, j)
    <2>1. CASE j \notin Entries(s)
      BY <1>5, <2>1 DEF BalanceOf
    <2>2. CASE j \in Entries(s) /\ ~IsVirtual(s, j)
      BY <1>1, <1>5, <2>2 DEF BalanceOf
    <2>3. CASE j \in Entries(s) /\ IsVirtual(s, j)
      <3>1. At(s, j) \in 1..Len(s.virtual_balances)
        BY <2>3, WholeFacts DEF Whole, Packed
      <3>2. j # k => At(s, j) # At(s, k)
        BY <2>3, PositionsDiffer
      <3>3. QED
        BY <1>4, <1>5, <2>3, <3>1, <3>2 DEF BalanceOf
    <2>4. QED
      BY <2>1, <2>2, <2>3
  <1>10. OthersKept(s, t, k)
    BY <1>1, <1>5 DEF OthersKept
  <1>11. QED
    BY <1>1, <1>5, <1>6, <1>7, <1>8, <1>9, <1>10 DEF Whole, Assigned

LEMMA OverwriteWithdrawableKeeps ==
  ASSUME NEW s, Whole(s), NEW k \in Entries(s), ~IsVirtual(s, k),
         NEW amount \in Amounts,
         NEW t, t = OverwriteWithdrawable(s, k, amount)
  PROVE  /\ Whole(t)
         /\ FreeRecordsZero(s) => FreeRecordsZero(t)
         /\ Assigned(s, t, k, amount)
         /\ OthersKept(s, t, k)
         /\ Entries(t) = Entries(s)
         /\ \A j \in Entries(s) :
              /\ IsVirtual(t, j) <=> IsVirtual(s, j)
              /\ At(t, j) = At(s, j)
         /\ t.balances[At(s, k)].header = s.balances[At(s, k)].header
  <1> DEFINE at == At(s, k)
             record == [header |-> s.balances[at].header, amount |-> amount]
  <1>1. /\ t.account_asset_balance = s.account_asset_balance
        /\ t.balances = [s.balances EXCEPT ![at] = record]
        /\ t.last_balances = s.last_balances
        /\ t.virtual_balances = s.virtual_balances
        /\ t.last_virtual_balances = s.last_virtual_balances
        /\ t.n_balances = s.n_balances
    BY DEF OverwriteWithdrawable, Table
  <1>2. t = Table(t.account_asset_balance, t.balances, t.last_balances,
                  t.virtual_balances, t.last_virtual_balances, t.n_balances)
    BY DEF OverwriteWithdrawable, Table
  <1>3. s.balances \in [1..MaxBalances -> [header: Header, amount: Amounts]]
    BY DEF Whole, TableType
  <1>4. ASSUME NEW j \in Entries(s), ~IsVirtual(s, j)
        PROVE  At(s, j) \in 1..MaxBalances /\ At(s, j) <= Len(s.last_balances)
    <2>1. /\ At(s, j) \in 1..Len(s.last_balances)
          /\ Len(s.last_balances) \in Nat /\ MaxBalances \in Nat
          /\ Len(s.last_balances) <= MaxBalances
      BY <1>4, WholeFacts
    <2>2. QED
      BY <2>1
  <1>5. at \in 1..MaxBalances /\ at <= Len(s.last_balances)
    BY <1>4
  <1>6. record \in [header: Header, amount: Amounts]
    BY <1>3, <1>5
  <1>7. /\ t.balances \in [1..MaxBalances -> [header: Header, amount: Amounts]]
        /\ t.balances[at] = record
        /\ \A i \in 1..MaxBalances \ {at} : t.balances[i] = s.balances[i]
    BY <1>1, <1>3, <1>5, <1>6
  <1>8. /\ Entries(t) = Entries(s)
        /\ \A j \in Entries(s) :
              /\ IsVirtual(t, j) <=> IsVirtual(s, j)
              /\ At(t, j) = At(s, j)
    BY <1>1 DEF Entries, IsVirtual, At
  <1>9. TableType(t)
    BY <1>1, <1>2, <1>7, <1>8 DEF Whole, TableType
  <1>10. Packed(t) /\ WithinLimit(t) /\ CountsMatch(t)
    BY <1>1, SameEntries
  <1>11. FreeRecordsZero(s) => FreeRecordsZero(t)
    <2>1. ASSUME FreeRecordsZero(s), NEW i \in 1..MaxBalances, i > Len(t.last_balances)
          PROVE  t.balances[i] = ZeroRecord
      <3>1. i > Len(s.last_balances) /\ Len(s.last_balances) \in Nat
        BY <1>1, <2>1, WholeFacts
      <3>2. i # at
        BY <1>5, <3>1
      <3>3. QED
        BY <1>7, <2>1, <3>1, <3>2 DEF FreeRecordsZero
    <2>2. QED
      BY <2>1 DEF FreeRecordsZero
  <1>12. ASSUME NEW j \in Entries(s), j # k, ~IsVirtual(s, j)
         PROVE  t.balances[At(s, j)] = s.balances[At(s, j)]
    <2>1. At(s, j) \in 1..MaxBalances /\ At(s, j) # at
      BY <1>4, <1>12, PositionsDiffer
    <2>2. QED
      BY <1>7, <2>1
  <1> HIDE DEF at
  <1>13. ASSUME NEW j \in Key
         PROVE  BalanceOf(t, j) = IF j = k THEN amount ELSE BalanceOf(s, j)
    <2>1. CASE j \notin Entries(s)
      BY <1>8, <2>1 DEF BalanceOf
    <2>2. CASE j \in Entries(s) /\ IsVirtual(s, j)
      BY <1>1, <1>8, <2>2 DEF BalanceOf
    <2>3. CASE j = k
      BY <1>7, <1>8, <2>3 DEF BalanceOf, at
    <2>4. CASE j \in Entries(s) /\ j # k /\ ~IsVirtual(s, j)
      BY <1>8, <1>12, <2>4 DEF BalanceOf
    <2>5. QED
      BY <2>1, <2>2, <2>3, <2>4
  <1>14. OthersKept(s, t, k)
    BY <1>1, <1>8, <1>12 DEF OthersKept
  <1>15. t.balances[At(s, k)].header = s.balances[At(s, k)].header
    BY <1>7 DEF at
  <1>16. QED
    BY <1>8, <1>9, <1>10, <1>11, <1>13, <1>14, <1>15 DEF Whole, Assigned

\* A balance of the machine goes: the last virtual balance takes its place.
LEMMA DropVirtualKeeps ==
  ASSUME NEW s, Whole(s), NEW k \in Entries(s), IsVirtual(s, k),
         NEW t, t = DropVirtual(s, k)
  PROVE  /\ Whole(t)
         /\ FreeRecordsZero(s) => FreeRecordsZero(t)
         /\ Assigned(s, t, k, 0)
         /\ OthersKept(s, t, k)
         /\ Entries(t) = Entries(s) \ {k}
  <1> DEFINE list == s.last_virtual_balances
             last == Last(list)
             at == At(s, k)
             n == Len(list)
             moved == [s.virtual_balances EXCEPT ![at] =
                         s.virtual_balances[At(s, last)]]
  <1>1. /\ t.account_asset_balance = Repoint(s.account_asset_balance, k, last)
        /\ t.balances = s.balances
        /\ t.last_balances = s.last_balances
        /\ t.virtual_balances = Front(moved)
        /\ t.last_virtual_balances = SwapOut(list, k)
        /\ t.n_balances = Count(s.n_balances, k[2], -1)
    BY DEF DropVirtual, MoveTo, Table
  <1>2. t = Table(t.account_asset_balance, t.balances, t.last_balances,
                  t.virtual_balances, t.last_virtual_balances, t.n_balances)
    BY DEF DropVirtual, Table
  <1>3. /\ DropsEntry(s, t, k, list, SwapOut(list, k))
        /\ t.account_asset_balance \in
              [Entries(t) -> [type: {"VIRTUAL", "WITHDRAWABLE"}, at: Nat \ {0}]]
        /\ ListMatchesMap(t, SwapOut(list, k), "VIRTUAL")
        /\ ListMatchesMap(t, s.last_balances, "WITHDRAWABLE")
    <2>1. /\ TableType(s)
          /\ list \in Seq(Key)
          /\ ListMatchesMap(s, list, "VIRTUAL")
          /\ ListMatchesMap(s, s.last_balances, "WITHDRAWABLE")
          /\ s.account_asset_balance[k].type = "VIRTUAL"
          /\ "VIRTUAL" # "WITHDRAWABLE"
      BY DEF Whole, TableType, Packed, IsVirtual
    <2>2. QED
      BY <1>1, <2>1, DropMap
  <1>4. /\ k \in Key
        /\ s.virtual_balances \in Seq(Amounts)
        /\ Len(s.virtual_balances) = n
        /\ s.last_balances \in Seq(Key)
    BY DEF Whole, TableType, Packed
  <1>5. /\ n \in Nat \ {0} /\ at \in 1..n /\ At(s, last) = n /\ n \in 1..n
    BY <1>3 DEF DropsEntry
  <1> HIDE DEF n
  <1>6. /\ moved \in Seq(Amounts)
        /\ Len(moved) = n
        /\ \A i \in 1..n : moved[i] = IF i = at THEN s.virtual_balances[n]
                                                ELSE s.virtual_balances[i]
    <2>1. s.virtual_balances[n] \in Amounts
      BY <1>4, <1>5, ElementOfSeq
    <2>2. QED
      BY <1>4, <1>5, <2>1, ExceptSeq
  <1> HIDE DEF moved
  <1>7. /\ t.virtual_balances \in Seq(Amounts)
        /\ Len(t.virtual_balances) = n - 1
        /\ \A i \in 1..(n - 1) : t.virtual_balances[i] = moved[i]
    <2>1. t.virtual_balances = SubSeq(moved, 1, n - 1)
      BY <1>1, <1>6 DEF Front
    <2>2. \A i \in 1..(n - 1) : moved[i] \in Amounts
      BY <1>5, <1>6, ElementOfSeq
    <2>3. QED
      BY <1>5, <1>6, <2>1, <2>2, SubSeqProperties
  <1>8. /\ IsFiniteSet(Entries(t))
        /\ Cardinality(Entries(t)) = Cardinality(Entries(s)) - 1
        /\ t.n_balances \in [AccountIds -> Nat]
        /\ CountsMatch(t)
    <2>1. Entries(t) = Entries(s) \ {k}
      BY <1>3 DEF DropsEntry
    <2>2. QED
      BY <1>1, <1>4, <2>1, RemoveCounts DEF Whole, TableType, WithinLimit
  <1>9. TableType(t)
    <2>1. Entries(t) \subseteq Key
      BY <1>3 DEF DropsEntry, Whole, TableType
    <2>2. t.last_virtual_balances \in Seq(Key)
      BY <1>1, <1>3 DEF DropsEntry
    <2>3. QED
      BY <1>1, <1>2, <1>3, <1>7, <1>8, <2>1, <2>2 DEF Whole, TableType
  <1>10. Len(t.last_virtual_balances) = n - 1
    BY <1>1, <1>3 DEF DropsEntry, n
  <1>11. Packed(t)
    BY <1>1, <1>3, <1>7, <1>10 DEF Packed
  <1>12. WithinLimit(t)
    BY <1>1, <1>8, <1>10, ShrinksWithinLimit DEF n
  <1>13. FreeRecordsZero(s) => FreeRecordsZero(t)
    BY <1>1 DEF FreeRecordsZero
  <1>14. /\ Entries(t) = Entries(s) \ {k}
         /\ \A j \in Entries(t) :
              /\ t.account_asset_balance[j].type = s.account_asset_balance[j].type
              /\ At(t, j) = IF j = last THEN at ELSE At(s, j)
         /\ IsVirtual(s, last) /\ last \in Entries(s)
    BY <1>3 DEF DropsEntry, IsVirtual
  <1> HIDE DEF at, last, list
  <1>15. ASSUME NEW j \in Key
         PROVE  BalanceOf(t, j) = IF j = k THEN 0 ELSE BalanceOf(s, j)
    <2>1. CASE j \notin Entries(t)
      BY <1>14, <2>1 DEF BalanceOf
    <2>2. CASE j \in Entries(t) /\ ~IsVirtual(s, j)
      <3>1. j # last /\ ~IsVirtual(t, j)
        BY <1>14, <2>2 DEF IsVirtual
      <3>2. QED
        BY <1>1, <1>14, <2>2, <3>1 DEF BalanceOf
    <2>3. CASE j \in Entries(t) /\ IsVirtual(s, j)
      <3>1. IsVirtual(t, j) /\ j \in Entries(s) /\ j # k
        BY <1>14, <2>3 DEF IsVirtual
      <3>2. At(s, j) \in 1..n
        BY <1>4, <2>3, <3>1, WholeFacts DEF n, list
      <3>3. CASE j = last
        <4>1. At(s, j) = n /\ at # n
          BY <1>5, <1>14, <3>1, <3>3, PositionsDiffer DEF at
        <4>2. at \in 1..(n - 1)
          BY <1>5, <4>1
        <4>3. t.virtual_balances[at] = s.virtual_balances[n]
          BY <1>5, <1>6, <1>7, <4>2
        <4>4. QED
          BY <1>14, <2>3, <3>1, <3>3, <4>1, <4>3 DEF BalanceOf
      <3>4. CASE j # last
        <4>1. At(s, j) # n
          BY <1>5, <1>14, <2>3, <3>1, <3>4, PositionsDiffer
        <4>2. At(s, j) # at
          BY <2>3, <3>1, PositionsDiffer DEF at
        <4>3. At(s, j) \in 1..(n - 1)
          BY <1>5, <3>2, <4>1
        <4>4. t.virtual_balances[At(s, j)] = s.virtual_balances[At(s, j)]
          BY <1>6, <1>7, <3>2, <4>2, <4>3
        <4>5. QED
          BY <1>14, <2>3, <3>1, <3>4, <4>4 DEF BalanceOf
      <3>5. QED
        BY <3>3, <3>4
    <2>4. QED
      BY <2>1, <2>2, <2>3
  <1>16. OthersKept(s, t, k)
    <2>1. \A j \in Entries(t) : ~IsVirtual(s, j) => At(t, j) = At(s, j)
      BY <1>14
    <2>2. QED
      BY <1>1, <1>14, <2>1 DEF OthersKept
  <1>17. QED
    BY <1>8, <1>9, <1>11, <1>12, <1>13, <1>14, <1>15, <1>16
       DEF Whole, Assigned

\* A record goes: the last record takes its place and is zeroed.
LEMMA DropWithdrawableKeeps ==
  ASSUME NEW s, Whole(s), NEW k \in Entries(s), ~IsVirtual(s, k),
         NEW t, t = DropWithdrawable(s, k)
  PROVE  /\ Whole(t)
         /\ FreeRecordsZero(s) => FreeRecordsZero(t)
         /\ Assigned(s, t, k, 0)
         /\ OthersKept(s, t, k)
         /\ Entries(t) = Entries(s) \ {k}
  <1> DEFINE list == s.last_balances
             last == Last(list)
             at == At(s, k)
             n == Len(list)
             moved == [s.balances EXCEPT ![at] = s.balances[At(s, last)]]
  <1>1. /\ t.account_asset_balance = Repoint(s.account_asset_balance, k, last)
        /\ t.balances = [moved EXCEPT ![At(s, last)] = ZeroRecord]
        /\ t.last_balances = SwapOut(list, k)
        /\ t.virtual_balances = s.virtual_balances
        /\ t.last_virtual_balances = s.last_virtual_balances
        /\ t.n_balances = Count(s.n_balances, k[2], -1)
    BY DEF DropWithdrawable, MoveTo, Table
  <1>2. t = Table(t.account_asset_balance, t.balances, t.last_balances,
                  t.virtual_balances, t.last_virtual_balances, t.n_balances)
    BY DEF DropWithdrawable, Table
  <1>3. /\ DropsEntry(s, t, k, list, SwapOut(list, k))
        /\ t.account_asset_balance \in
              [Entries(t) -> [type: {"VIRTUAL", "WITHDRAWABLE"}, at: Nat \ {0}]]
        /\ ListMatchesMap(t, SwapOut(list, k), "WITHDRAWABLE")
        /\ ListMatchesMap(t, s.last_virtual_balances, "VIRTUAL")
    <2>1. s.account_asset_balance[k].type = "WITHDRAWABLE"
      BY WholeFacts DEF IsVirtual
    <2>2. /\ TableType(s)
          /\ list \in Seq(Key)
          /\ ListMatchesMap(s, list, "WITHDRAWABLE")
          /\ ListMatchesMap(s, s.last_virtual_balances, "VIRTUAL")
          /\ "VIRTUAL" # "WITHDRAWABLE"
      BY DEF Whole, TableType, Packed
    <2>3. QED
      BY <1>1, <2>1, <2>2, DropMap
  <1>4. /\ k \in Key
        /\ s.balances \in [1..MaxBalances -> [header: Header, amount: Amounts]]
        /\ s.last_virtual_balances \in Seq(Key)
    BY DEF Whole, TableType
  <1>5. /\ n \in Nat \ {0} /\ at \in 1..n /\ At(s, last) = n
        /\ MaxBalances \in Nat /\ n <= MaxBalances
    BY <1>3, WholeFacts DEF DropsEntry
  <1> HIDE DEF n
  <1>6. at \in 1..MaxBalances /\ n \in 1..MaxBalances
    BY <1>5
  <1>7. ZeroRecord \in [header: Header, amount: Amounts]
    <2>1. 0 \in Amounts
      BY TableAssumption, TypesAssumption DEF Amounts
    <2>2. NoHeader \in Header
      BY DEF NoHeader, Header, AssetTypes
    <2>3. QED
      BY <2>1, <2>2 DEF ZeroRecord
  <1>8. /\ t.balances \in [1..MaxBalances -> [header: Header, amount: Amounts]]
        /\ \A i \in 1..MaxBalances :
             t.balances[i] = IF i = n THEN ZeroRecord
                             ELSE IF i = at THEN s.balances[n]
                             ELSE s.balances[i]
    <2>1. moved \in [1..MaxBalances -> [header: Header, amount: Amounts]]
      BY <1>4, <1>5, <1>6
    <2>2. \A i \in 1..MaxBalances :
            moved[i] = IF i = at THEN s.balances[n] ELSE s.balances[i]
      BY <1>4, <1>5, <1>6
    <2> HIDE DEF moved
    <2>3. QED
      BY <1>1, <1>5, <1>6, <1>7, <2>1, <2>2
  <1>9. /\ IsFiniteSet(Entries(t))
        /\ Cardinality(Entries(t)) = Cardinality(Entries(s)) - 1
        /\ t.n_balances \in [AccountIds -> Nat]
        /\ CountsMatch(t)
    <2>1. Entries(t) = Entries(s) \ {k}
      BY <1>3 DEF DropsEntry
    <2>2. QED
      BY <1>1, <1>4, <2>1, RemoveCounts DEF Whole, TableType, WithinLimit
  <1>10. TableType(t)
    <2>1. Entries(t) \subseteq Key
      BY <1>3 DEF DropsEntry, Whole, TableType
    <2>2. t.last_balances \in Seq(Key)
      BY <1>1, <1>3 DEF DropsEntry
    <2>3. QED
      BY <1>1, <1>2, <1>3, <1>8, <1>9, <2>1, <2>2 DEF Whole, TableType
  <1>11. Len(t.last_balances) = n - 1
    BY <1>1, <1>3 DEF DropsEntry, n
  <1>12. Packed(t)
    BY <1>1, <1>3 DEF Packed, Whole
  <1>13. WithinLimit(t)
    BY <1>1, <1>9, <1>11, ShrinksWithinLimit DEF n
  <1>14. FreeRecordsZero(s) => FreeRecordsZero(t)
    <2>1. ASSUME FreeRecordsZero(s), NEW i \in 1..MaxBalances, i > Len(t.last_balances)
          PROVE  t.balances[i] = ZeroRecord
      <3>1. CASE i = n
        BY <1>8, <3>1
      <3>2. CASE i # n
        <4>1. i > n /\ i # at
          BY <1>5, <1>11, <2>1, <3>2
        <4>2. s.balances[i] = ZeroRecord
          BY <2>1, <4>1 DEF n, FreeRecordsZero
        <4>3. QED
          BY <1>8, <3>2, <4>1, <4>2
      <3>3. QED
        BY <3>1, <3>2
    <2>2. QED
      BY <2>1 DEF FreeRecordsZero
  <1>15. /\ Entries(t) = Entries(s) \ {k}
         /\ \A j \in Entries(t) :
              /\ t.account_asset_balance[j].type = s.account_asset_balance[j].type
              /\ At(t, j) = IF j = last THEN at ELSE At(s, j)
         /\ ~IsVirtual(s, last) /\ last \in Entries(s)
    BY <1>3 DEF DropsEntry, IsVirtual
  <1> HIDE DEF at, last, list
  <1>16. ASSUME NEW j \in Entries(t), ~IsVirtual(s, j)
         PROVE  t.balances[At(t, j)] = s.balances[At(s, j)]
    <2>1. j \in Entries(s) /\ j # k
      BY <1>15
    <2>2. At(s, j) # at
      BY <1>16, <2>1, PositionsDiffer DEF at
    <2>3. CASE j = last
      <3>1. At(s, j) = n /\ at # n /\ At(t, j) = at
        BY <1>5, <1>15, <2>2, <2>3
      <3>2. QED
        BY <1>6, <1>8, <3>1
    <2>4. CASE j # last
      <3>1. At(s, j) # n /\ At(t, j) = At(s, j)
        BY <1>5, <1>15, <1>16, <2>1, <2>4, PositionsDiffer
      <3>2. At(s, j) \in 1..n
        BY <1>16, <2>1, WholeFacts DEF n, list
      <3>3. At(s, j) \in 1..MaxBalances
        BY <1>5, <3>2
      <3>4. QED
        BY <1>8, <2>2, <3>1, <3>3
    <2>5. QED
      BY <2>3, <2>4
  <1>17. ASSUME NEW j \in Key
         PROVE  BalanceOf(t, j) = IF j = k THEN 0 ELSE BalanceOf(s, j)
    <2>1. CASE j \notin Entries(t)
      BY <1>15, <2>1 DEF BalanceOf
    <2>2. CASE j \in Entries(t) /\ IsVirtual(s, j)
      <3>1. j # last /\ IsVirtual(t, j)
        BY <1>15, <2>2 DEF IsVirtual
      <3>2. QED
        BY <1>1, <1>15, <2>2, <3>1 DEF BalanceOf
    <2>3. CASE j \in Entries(t) /\ ~IsVirtual(s, j)
      <3>1. ~IsVirtual(t, j) /\ j # k
        BY <1>15, <2>3 DEF IsVirtual
      <3>2. QED
        BY <1>15, <1>16, <2>3, <3>1 DEF BalanceOf
    <2>4. QED
      BY <2>1, <2>2, <2>3
  <1>18. OthersKept(s, t, k)
    BY <1>15, <1>16 DEF OthersKept
  <1>19. QED
    BY <1>9, <1>10, <1>12, <1>13, <1>14, <1>15, <1>17, <1>18
       DEF Whole, Assigned

-----------------------------------------------------------------------------
(* The calls. *)

\* What set_account_asset_balance makes of a table.
SetsBalance(s, t, k, withdrawable, header, amount) ==
  /\ Whole(t)
  /\ FreeRecordsZero(s) => FreeRecordsZero(t)
  /\ Assigned(s, t, k, amount)
  /\ OthersKept(s, t, k)
  /\ Entries(t) = IF k \in Entries(s) /\ amount = 0
                  THEN Entries(s) \ {k} ELSE Entries(s) \cup {k}
  /\ k \in Entries(t) =>
       IF k \in Entries(s)
       THEN /\ IsVirtual(t, k) <=> IsVirtual(s, k)
            /\ ~IsVirtual(s, k) => t.balances[At(t, k)].header =
                                   s.balances[At(s, k)].header
       ELSE /\ IsVirtual(t, k) <=> ~withdrawable
            /\ withdrawable /\ FreeRecordsZero(s) =>
                 t.balances[At(t, k)].header = header

\* set_account_asset_balance as a whole, on a table with room for k whatever
\* its free records hold: it assigns k and leaves every other balance.  The
\* new record tells the truth if it was zero before.
LEMMA SetBalanceWhole ==
  ASSUME NEW s, Whole(s), NEW k \in Key, k \in Entries(s) \/ ~Full(s),
         NEW withdrawable \in BOOLEAN,
         NEW header, withdrawable => Describes(header),
         NEW amount \in Amounts,
         NEW t, t = SetBalance(s, k, withdrawable, header, amount)
  PROVE  SetsBalance(s, t, k, withdrawable, header, amount)
  <1>1. CASE k \notin Entries(s) /\ withdrawable
    <2>1. t = NewWithdrawable(s, k, header, amount) /\ ~Full(s)
      BY <1>1 DEF SetBalance
    <2>2. Describes(header)
      BY <1>1
    <2>3. /\ Whole(t)
          /\ FreeRecordsZero(s) => FreeRecordsZero(t)
          /\ Assigned(s, t, k, amount)
          /\ OthersKept(s, t, k)
          /\ Entries(t) = Entries(s) \cup {k} /\ ~IsVirtual(t, k)
          /\ FreeRecordsZero(s) => t.balances[At(t, k)].header = header
      <3>1. k \notin Entries(s) /\ ~Full(s) /\ amount \in Amounts /\ k \in Key
        BY <1>1, <2>1
      <3>2. Whole(t) /\ (FreeRecordsZero(s) => FreeRecordsZero(t))
        BY <2>1, <2>2, <3>1, NewWithdrawableKeeps
      <3>3. Assigned(s, t, k, amount)
        BY <2>1, <2>2, <3>1, NewWithdrawableKeeps
      <3>4. FreeRecordsZero(s) => t.balances[At(t, k)].header = header
        BY <2>1, <2>2, <3>1, NewWithdrawableKeeps
      <3>5. QED
        BY <2>1, <2>2, <3>1, <3>2, <3>3, <3>4, NewWithdrawableKeeps
    <2>4. QED
      BY <1>1, <2>3 DEF SetsBalance
  <1>2. CASE k \notin Entries(s) /\ ~withdrawable
    <2>1. t = NewVirtual(s, k, amount) /\ ~Full(s)
      BY <1>2 DEF SetBalance
    <2>2. QED
      BY <1>2, <2>1, NewVirtualKeeps DEF SetsBalance
  <1>3. CASE k \in Entries(s) /\ amount # 0 /\ IsVirtual(s, k)
    <2>1. t = OverwriteVirtual(s, k, amount)
      BY <1>3 DEF SetBalance
    <2>2. QED
      BY <1>3, <2>1, OverwriteVirtualKeeps DEF SetsBalance
  <1>4. CASE k \in Entries(s) /\ amount # 0 /\ ~IsVirtual(s, k)
    <2>1. t = OverwriteWithdrawable(s, k, amount)
      BY <1>4 DEF SetBalance
    <2>2. QED
      BY <1>4, <2>1, OverwriteWithdrawableKeeps DEF SetsBalance
  <1>5. CASE k \in Entries(s) /\ amount = 0 /\ IsVirtual(s, k)
    <2>1. t = DropVirtual(s, k)
      BY <1>5 DEF SetBalance
    <2>2. QED
      BY <1>5, <2>1, DropVirtualKeeps DEF SetsBalance
  <1>6. CASE k \in Entries(s) /\ amount = 0 /\ ~IsVirtual(s, k)
    <2>1. t = DropWithdrawable(s, k)
      BY <1>6 DEF SetBalance
    <2>2. QED
      BY <1>6, <2>1, DropWithdrawableKeeps DEF SetsBalance
  <1>7. QED
    BY <1>1, <1>2, <1>3, <1>4, <1>5, <1>6

\* On a well formed table it leaves one, whose records tell the truth if the new one
\* does.
LEMMA SetBalanceKeeps ==
  ASSUME NEW s, WellFormed(s), NEW k \in Key, k \in Entries(s) \/ ~Full(s),
         NEW withdrawable \in BOOLEAN,
         NEW header, withdrawable => Describes(header),
         NEW amount \in Amounts,
         NEW t, t = SetBalance(s, k, withdrawable, header, amount)
  PROVE  /\ WellFormed(t)
         /\ Assigned(s, t, k, amount)
         /\ OthersKept(s, t, k)
         /\ Entries(t) = IF k \in Entries(s) /\ amount = 0
                         THEN Entries(s) \ {k} ELSE Entries(s) \cup {k}
         /\ k \in Entries(t) =>
              IF k \in Entries(s)
              THEN /\ IsVirtual(t, k) <=> IsVirtual(s, k)
                   /\ ~IsVirtual(s, k) => t.balances[At(t, k)].header =
                                          s.balances[At(s, k)].header
              ELSE /\ IsVirtual(t, k) <=> ~withdrawable
                   /\ withdrawable => t.balances[At(t, k)].header = header
  <1>1. Whole(s) /\ FreeRecordsZero(s)
    BY WellFormedIsWhole
  <1>2. SetsBalance(s, t, k, withdrawable, header, amount)
    BY <1>1, SetBalanceWhole
  <1>3. WellFormed(t)
    BY <1>1, <1>2, WellFormedIsWhole DEF SetsBalance
  <1>4. QED
    BY <1>1, <1>2, <1>3 DEF SetsBalance

LEMMA EmptyTableWellFormed ==
  /\ WellFormed(EmptyTable)
  /\ \A k \in Key : BalanceOf(EmptyTable, k) = 0
  /\ Entries(EmptyTable) = {}
  <1> DEFINE s == EmptyTable
  <1>1. /\ s.account_asset_balance = <<>>
        /\ s.balances = [i \in 1..MaxBalances |-> ZeroRecord]
        /\ s.last_balances = <<>>
        /\ s.virtual_balances = <<>>
        /\ s.last_virtual_balances = <<>>
        /\ s.n_balances = [u \in AccountIds |-> 0]
        /\ s = Table(s.account_asset_balance, s.balances, s.last_balances,
                     s.virtual_balances, s.last_virtual_balances, s.n_balances)
    BY DEF EmptyTable, Table
  <1> HIDE DEF s
  <1>2. Entries(s) = {} /\ DOMAIN s.last_balances = {} /\ Len(s.last_balances) = 0
        /\ DOMAIN s.last_virtual_balances = {} /\ Len(s.last_virtual_balances) = 0
    BY <1>1 DEF Entries
  <1>3. TableType(s)
    <2>1. ZeroRecord \in [header: Header, amount: Amounts]
      <3>1. 0 \in Amounts
        BY TableAssumption, TypesAssumption DEF Amounts
      <3>2. NoHeader \in Header
        BY DEF NoHeader, Header, AssetTypes
      <3>3. QED
        BY <3>1, <3>2 DEF ZeroRecord
    <2>2. /\ s.balances \in [1..MaxBalances -> [header: Header, amount: Amounts]]
          /\ s.n_balances \in [AccountIds -> Nat]
      BY <1>1, <2>1
    <2>3. s.account_asset_balance \in
            [Entries(s) -> [type: {"VIRTUAL", "WITHDRAWABLE"}, at: Nat \ {0}]]
      BY <1>1, <1>2 DEF Entries
    <2>4. QED
      BY <1>1, <1>2, <2>2, <2>3 DEF TableType
  <1>4. Packed(s)
    BY <1>1, <1>2 DEF Packed, ListMatchesMap
  <1>5. WithinLimit(s)
    BY <1>2, FS_EmptySet, TableAssumption, TypesAssumption DEF WithinLimit
  <1>6. FreeRecordsZero(s)
    BY <1>1 DEF FreeRecordsZero
  <1>7. CountsMatch(s)
    <2>1. \A u : EntriesOf(s, u) = {}
      BY <1>2 DEF EntriesOf
    <2>2. QED
      BY <1>1, <2>1, FS_EmptySet DEF CountsMatch
  <1>8. \A k \in Key : BalanceOf(s, k) = 0
    BY <1>2 DEF BalanceOf
  <1>9. QED
    BY <1>2, <1>3, <1>4, <1>5, <1>6, <1>7, <1>8 DEF WellFormed, s

\* clear: the table is the empty one again.
LEMMA ClearTableEmpties ==
  ASSUME NEW s, WellFormed(s)
  PROVE  ClearTable(s) = EmptyTable
  <1>1. [i \in 1..MaxBalances |-> IF i <= Len(s.last_balances)
                                  THEN ZeroRecord ELSE s.balances[i]] =
          [i \in 1..MaxBalances |-> ZeroRecord]
    <2>1. Len(s.last_balances) \in Nat
      BY WellFormedIsWhole, WholeFacts
    <2>2. \A i \in 1..MaxBalances :
            ~(i <= Len(s.last_balances)) => s.balances[i] = ZeroRecord
      BY <2>1 DEF WellFormed, FreeRecordsZero
    <2>3. QED
      BY <2>2
  <1>2. QED
    BY <1>1 DEF ClearTable, EmptyTable
=============================================================================
