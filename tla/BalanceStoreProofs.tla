------------------------- MODULE BalanceStoreProofs -------------------------
(***************************************************************************)
(* The balance storage, for every number of assets, accounts and records:  *)
(*  - its table stays packed and counted, its records truthful, and it     *)
(*    implements a map from pairs to amounts (BalanceStore);               *)
(*  - its vector of virtual balances may move in memory (VirtualGrowth);   *)
(*  - what a process leaves that stops in the middle of a call             *)
(*    (LedgerCrash).                                                       *)
(***************************************************************************)
EXTENDS VirtualGrowth, LedgerCrash, BalanceTableProofs, SumLemmas

\* The inductive invariant: the table is well formed, which every step of
\* set_account_asset_balance needs to find the position it moves, and its
\* records describe the pairs that own them.
IInv == WellFormed(table) /\ RecordsDescribe

LEMMA HeaderDescribes ==
  ASSUME NEW k \in Withdrawable
  PROVE  Describes(HeaderFor(k)) /\ HeaderFor(k) = HeaderOf[k]
  BY StoreAssumption DEF HeaderFor, Describes

LEMMA InitIInv == Init => IInv
  BY EmptyTableWellFormed DEF Init, IInv, RecordsDescribe

\* What one call does to the table.
LEMMA SetKeeps ==
  ASSUME IInv, NEW k \in Key, NEW amount \in Amounts,
         SetAccountAssetBalance(k, amount)
  PROVE  IInv' /\ Assigned(table, table', k, amount)
  <1> DEFINE s == table
             t == table'
             w == k \in Withdrawable
             h == HeaderFor(k)
  <1>1. /\ WellFormed(s)
        /\ k \in Entries(s) \/ ~Full(s)
        /\ w \in BOOLEAN
        /\ w => Describes(h)
        /\ t = SetBalance(s, k, w, h, amount)
    BY HeaderDescribes DEF IInv, SetAccountAssetBalance
  <1> HIDE DEF s, t, w, h
  <1>2. WellFormed(t)
    BY <1>1, SetBalanceKeeps
  <1>3. Assigned(s, t, k, amount)
    BY <1>1, SetBalanceKeeps
  <1>4. OthersKept(s, t, k)
    BY <1>1, SetBalanceKeeps
  <1>5. k \in Entries(t) =>
          IF k \in Entries(s)
          THEN /\ IsVirtual(t, k) <=> IsVirtual(s, k)
               /\ ~IsVirtual(s, k) => t.balances[At(t, k)].header =
                                      s.balances[At(s, k)].header
          ELSE /\ IsVirtual(t, k) <=> ~w
               /\ w => t.balances[At(t, k)].header = h
    BY <1>1, SetBalanceKeeps
  <1>6. ASSUME NEW j \in Entries(t)
        PROVE  IF j \in Withdrawable
               THEN /\ ~IsVirtual(t, j)
                    /\ t.balances[At(t, j)].header = HeaderOf[j]
               ELSE IsVirtual(t, j)
    <2>1. j \in Entries(s) =>
            IF j \in Withdrawable
            THEN /\ ~IsVirtual(s, j)
                 /\ s.balances[At(s, j)].header = HeaderOf[j]
            ELSE IsVirtual(s, j)
      BY DEF IInv, RecordsDescribe, s
    <2>2. CASE j # k
      <3>1. /\ j \in Entries(s)
            /\ IsVirtual(t, j) <=> IsVirtual(s, j)
            /\ ~IsVirtual(s, j) => t.balances[At(t, j)].header =
                                   s.balances[At(s, j)].header
        BY <1>4, <2>2 DEF OthersKept, IsVirtual
      <3>2. QED
        BY <2>1, <3>1
    <2>3. CASE j = k /\ k \in Entries(s)
      BY <1>5, <2>1, <2>3
    <2>4. CASE j = k /\ k \notin Entries(s)
      BY <1>5, <2>4, HeaderDescribes DEF w, h
    <2>5. QED
      BY <2>2, <2>3, <2>4
  <1>7. IInv'
    BY <1>2, <1>6 DEF IInv, RecordsDescribe, t
  <1>8. QED
    BY <1>3, <1>7 DEF s, t

LEMMA ClearKeeps ==
  ASSUME IInv, Clear
  PROVE  IInv' /\ \A k \in Key : BalanceOf(table', k) = 0
  <1>1. table' = EmptyTable
    BY ClearTableEmpties DEF IInv, Clear
  <1>2. QED
    BY <1>1, EmptyTableWellFormed DEF IInv, RecordsDescribe

LEMMA NextIInv == IInv /\ [Next]_table => IInv'
  <1> SUFFICES ASSUME IInv, [Next]_table
               PROVE  IInv'
    OBVIOUS
  <1>1. CASE Clear
    BY <1>1, ClearKeeps
  <1>2. ASSUME NEW k \in Key, NEW amount \in Amounts,
               SetAccountAssetBalance(k, amount)
        PROVE  IInv'
    BY <1>2, SetKeeps
  <1>3. CASE UNCHANGED table
    BY <1>3 DEF IInv, RecordsDescribe
  <1>4. QED
    BY <1>1, <1>2, <1>3 DEF Next

THEOREM Invariance == Spec => []IInv
  <1>1. QED
    BY InitIInv, NextIInv, PTL DEF Spec

\* The structures keep their types.
THEOREM TypeCorrect == Spec => []TypeOK
  <1>1. IInv => TypeOK
    BY DEF IInv, WellFormed, TypeOK
  <1>2. QED
    BY <1>1, Invariance, PTL

\* No sequence of sets and clears takes the map, the arrays and the key
\* lists out of step, or leaves something in a free record.
THEOREM Packing == Spec => []StorePacked
  <1>1. IInv => StorePacked
    BY DEF IInv, WellFormed, StorePacked
  <1>2. QED
    BY <1>1, Invariance, PTL

\* n_balances counts the entries of each account.
THEOREM Counting == Spec => []StoreCounts
  <1>1. IInv => StoreCounts
    BY DEF IInv, WellFormed, StoreCounts
  <1>2. QED
    BY <1>1, Invariance, PTL

\* Every record describes the pair that owns it, wherever swaps moved it.
THEOREM Describing == Spec => []RecordsDescribe
  <1>1. IInv => RecordsDescribe
    BY DEF IInv
  <1>2. QED
    BY <1>1, Invariance, PTL

\* The storage implements a map: the balance a pair reads is the last one
\* set for that pair, whatever was set, dropped or moved for the others.
THEOREM Refinement == Spec => RefinesMap
  <1> DEFINE reads(s) == [k \in Key |-> BalanceOf(s, k)]
  <1>1. Init => Map!Init
    BY EmptyTableWellFormed DEF Init, Map!Init
  <1>2. ASSUME IInv, [Next]_table
        PROVE  [Map!Next]_(reads(table))
    <2>1. CASE Clear
      <3>1. Map!Clear
        BY <1>2, <2>1, ClearKeeps DEF Map!Clear
      <3>2. QED
        BY <3>1 DEF Map!Next
    <2>2. ASSUME NEW k \in Key, NEW amount \in Amounts,
                 SetAccountAssetBalance(k, amount)
          PROVE  Map!Next
      <3>1. \A j \in Key : BalanceOf(table', j) =
                             IF j = k THEN amount ELSE BalanceOf(table, j)
        BY <1>2, <2>2, SetKeeps DEF Assigned
      <3>2. Map!Set(k, amount)
        BY <3>1 DEF Map!Set
      <3>3. QED
        BY <3>2 DEF Map!Next
    <2>3. CASE UNCHANGED table
      BY <2>3
    <2>4. QED
      BY <1>2, <2>1, <2>2, <2>3 DEF Next
  <1>3. QED
    BY <1>1, <1>2, Invariance, PTL DEF Spec, RefinesMap, Map!Spec

-----------------------------------------------------------------------------
(***************************************************************************)
(* Whether the map's pointers are good, for every number of balances and   *)
(* every reserve.  What is proved above of the table holds here too: with  *)
(* its vector the storage is still the storage (GrowthIsStore).            *)
(***************************************************************************)

\* A block larger than the reserve tells that the vector has moved, and only then
\* can a pointer be stale: that of a balance that is virtual, as it was when the
\* vector moved, because nothing is set any more after that.
GrowthInv ==
  /\ IInv
  /\ capacity \in Nat
  /\ INIT_BALANCE <= capacity
  /\ Len(table.virtual_balances) <= capacity
  /\ capacity = INIT_BALANCE => stale = {}
  /\ stale \cap Withdrawable = {}

LEMMA VirtualHasNoRecord == IInv => VirtualEntries(table) \cap Withdrawable = {}
  BY DEF IInv, RecordsDescribe, VirtualEntries

LEMMA LengthIsNat == WellFormed(table) => Len(table.virtual_balances) \in Nat
  BY DEF WellFormed, TableType, Table

LEMMA InitGrowth == GrowthInit => GrowthInv
  <1> SUFFICES ASSUME GrowthInit
               PROVE  GrowthInv
    OBVIOUS
  <1>1. IInv
    BY InitIInv DEF GrowthInit
  <1>2. table.virtual_balances = <<>>
    BY DEF GrowthInit, Init, EmptyTable, Table
  <1>3. QED
    BY <1>1, <1>2, ReserveAssumption DEF GrowthInit, GrowthInv, Reserve

LEMMA SetGrowth ==
  ASSUME GrowthInv, NEW k \in Key, NEW amount \in Amounts, Set(k, amount)
  PROVE  GrowthInv'
  <1>1. IInv /\ IInv'
    BY SetKeeps DEF GrowthInv, Set
  <1>2. Len(table'.virtual_balances) \in Nat
    <2>1. WellFormed(table')
      BY <1>1 DEF IInv
    <2>2. QED
      BY <2>1 DEF WellFormed, TableType, Table
  <1>3. CASE Len(table'.virtual_balances) > capacity /\ Grow
    <2>1. capacity' > INIT_BALANCE
      BY <1>2, <1>3, ReserveAssumption DEF GrowthInv, Grow
    <2>2. stale' \cap Withdrawable = {}
      BY <1>1, <1>3, VirtualHasNoRecord DEF GrowthInv, Grow
    <2>3. QED
      BY <1>1, <1>2, <1>3, <2>1, <2>2, ReserveAssumption DEF GrowthInv, Grow
  <1>4. CASE Len(table'.virtual_balances) <= capacity /\ UNCHANGED <<capacity, stale>>
    BY <1>1, <1>4 DEF GrowthInv
  <1>5. QED
    BY <1>3, <1>4 DEF Set

LEMMA ClearGrowth == ASSUME GrowthInv, ClearAll PROVE GrowthInv'
  <1>1. IInv'
    BY ClearKeeps DEF GrowthInv, ClearAll
  <1>2. table'.virtual_balances = <<>>
    <2>1. table' = EmptyTable
      BY ClearTableEmpties DEF GrowthInv, IInv, ClearAll, Clear
    <2>2. QED
      BY <2>1 DEF EmptyTable, Table
  <1>3. QED
    BY <1>1, <1>2 DEF GrowthInv, ClearAll

LEMMA SameGrowth == GrowthInv /\ UNCHANGED growthVars => GrowthInv'
  BY DEF GrowthInv, growthVars, IInv, RecordsDescribe

LEMMA NextGrowth == GrowthInv /\ [GrowthNext]_growthVars => GrowthInv'
  <1> SUFFICES ASSUME GrowthInv, [GrowthNext]_growthVars
               PROVE  GrowthInv'
    OBVIOUS
  <1>1. ASSUME NEW k \in Key, NEW amount \in Amounts, Set(k, amount)
        PROVE  GrowthInv'
    BY <1>1, SetGrowth
  <1>2. CASE ClearAll
    BY <1>2, ClearGrowth
  <1>3. CASE Get \/ UNCHANGED growthVars
    BY <1>3, SameGrowth DEF Get
  <1>4. QED
    BY <1>1, <1>2, <1>3 DEF GrowthNext

\* Until more balances than the reserve were virtual at a time every balance reads
\* as it was set, and one with a record always does (ledger_impl.cpp:1385).
THEOREM PointersHold == GrowthSpec => []WithinReserveReadBack
  <1>1. GrowthInv => WithinReserveReadBack
    <2> SUFFICES ASSUME GrowthInv
                 PROVE  WithinReserveReadBack
      OBVIOUS
    <2>1. ASSUME NEW k \in Key, capacity <= INIT_BALANCE \/ k \in Withdrawable
          PROVE  k \notin stale
      BY <2>1, ReserveAssumption DEF GrowthInv
    <2>2. QED
      BY <2>1 DEF GrowthInv, WithinReserveReadBack, Readable
  <1>2. QED
    BY <1>1, InitGrowth, NextGrowth, PTL DEF GrowthSpec

\* The steps are those of the storage, or change nothing in it: it is packed, its
\* records describe their owners and it implements a map here as well.
THEOREM GrowthIsStore == GrowthSpec => Spec
  <1>1. GrowthInit => Init
    BY DEF GrowthInit
  <1>2. [GrowthNext]_growthVars => [Next]_table
    BY DEF GrowthNext, Next, Set, ClearAll, Get, growthVars
  <1>3. QED
    BY <1>1, <1>2, PTL DEF GrowthSpec, Spec

\* StorePacked, RecordsDescribe and RefinesMap, with the vector that moves.
THEOREM StorageHolds == GrowthSpec => [](StorePacked /\ RecordsDescribe) /\ RefinesMap
  BY GrowthIsStore, Packing, Describing, Refinement, PTL

-----------------------------------------------------------------------------
(***************************************************************************)
(* A process that stops in the middle of a call, for every number of       *)
(* balances.  First the writes of one set_account_asset_balance: what a    *)
(* pair reads at each of them (Stage), and that the last one leaves the    *)
(* table SetBalance gives (SetWritesStaged).                               *)
(***************************************************************************)

\* The owner of the last position of the array that k's balance is in.
MovedIn(s, k) ==
  Last(IF IsVirtual(s, k) THEN s.last_virtual_balances ELSE s.last_balances)

Drops(s, k, amount) == k \in Entries(s) /\ amount = 0

Records == [1..MaxBalances -> [header: Header, amount: Amounts]]

\* What is true of the table x on the way from s to s with k set to amount.
Stage(s, k, amount, x) ==
  /\ x.balances \in Records
  /\ \A j \in Key : j \in Entries(x) =>
       InArray(x, j) \/ (j = k /\ Drops(s, k, amount))
  /\ \A j \in Key \ {k} :
       \/ ReadOf(x, j) = BalanceOf(s, j)
       \/ /\ ReadOf(x, j) = 0
          /\ Drops(s, k, amount) /\ j = MovedIn(s, k) /\ ~IsVirtual(s, j)
  /\ \/ ReadOf(x, k) \in {BalanceOf(s, k), amount}
     \/ Drops(s, k, amount) /\ ReadOf(x, k) = BalanceOf(s, MovedIn(s, k))

\* Only the map and the arrays are read.
LEMMA SameCells ==
  ASSUME NEW s, NEW k, NEW amount, NEW x, NEW y, Stage(s, k, amount, x),
         y.account_asset_balance = x.account_asset_balance,
         y.balances = x.balances,
         y.virtual_balances = x.virtual_balances
  PROVE  Stage(s, k, amount, y)
  <1>1. /\ Entries(y) = Entries(x)
        /\ \A j : InArray(y, j) <=> InArray(x, j)
        /\ \A j : ReadOf(y, j) = ReadOf(x, j)
    BY DEF Entries, InArray, ReadOf, BalanceOf, IsVirtual, At
  <1>2. QED
    BY <1>1 DEF Stage

\* In a whole table every pointer is in its array.
LEMMA WholeReads ==
  ASSUME NEW s, Whole(s)
  PROVE  /\ \A j \in Entries(s) :
              /\ j \in Key
              /\ InArray(s, j)
              /\ IsVirtual(s, j) => At(s, j) \in 1..Len(s.virtual_balances)
              /\ ~IsVirtual(s, j) => At(s, j) \in 1..MaxBalances
         /\ \A j \in Key : ReadOf(s, j) = BalanceOf(s, j) /\ BalanceOf(s, j) \in Amounts
         /\ s.balances \in Records
         /\ s.virtual_balances \in Seq(Amounts)
         /\ DOMAIN s.virtual_balances = 1..Len(s.virtual_balances)
         /\ Len(s.virtual_balances) \in Nat
         /\ Len(s.virtual_balances) = Len(s.last_virtual_balances)
  <1>1. /\ s.balances \in Records
        /\ s.virtual_balances \in Seq(Amounts)
        /\ Len(s.virtual_balances) = Len(s.last_virtual_balances)
        /\ Entries(s) \subseteq Key
    BY DEF Whole, TableType, Packed, Records
  <1>2. DOMAIN s.virtual_balances = 1..Len(s.virtual_balances) /\ Len(s.virtual_balances) \in Nat
    BY <1>1, LenProperties
  <1>3. ASSUME NEW j \in Entries(s)
        PROVE  /\ IsVirtual(s, j) => At(s, j) \in 1..Len(s.virtual_balances)
               /\ ~IsVirtual(s, j) => At(s, j) \in 1..MaxBalances
    <2>1. /\ IsVirtual(s, j) => At(s, j) \in 1..Len(s.virtual_balances)
          /\ ~IsVirtual(s, j) => At(s, j) \in 1..Len(s.last_balances)
          /\ Len(s.last_balances) \in Nat /\ MaxBalances \in Nat
          /\ Len(s.last_balances) <= MaxBalances
      BY <1>1, WholeFacts
    <2>2. QED
      BY <2>1
  <1>4. \A j \in Entries(s) : InArray(s, j)
    BY <1>1, <1>2, <1>3 DEF InArray, Records
  <1>5. \A j \in Key : ReadOf(s, j) = BalanceOf(s, j)
    BY <1>4 DEF ReadOf
  <1>6. ASSUME NEW j \in Key
        PROVE  BalanceOf(s, j) \in Amounts
    <2>1. 0 \in Amounts
      BY TypesAssumption DEF Amounts
    <2>2. CASE j \in Entries(s) /\ IsVirtual(s, j)
      <3>1. s.virtual_balances[At(s, j)] \in Amounts
        BY <1>1, <1>3, <2>2, ElementOfSeq
      <3>2. QED
        BY <2>2, <3>1 DEF BalanceOf
    <2>3. CASE j \in Entries(s) /\ ~IsVirtual(s, j)
      <3>1. s.balances[At(s, j)].amount \in Amounts
        BY <1>1, <1>3, <2>3 DEF Records
      <3>2. QED
        BY <2>3, <3>1 DEF BalanceOf
    <2>4. QED
      BY <2>1, <2>2, <2>3 DEF BalanceOf
  <1>7. QED
    BY <1>1, <1>2, <1>3, <1>4, <1>5, <1>6

\* The table a set ends with.
LEMMA WholeStage ==
  ASSUME NEW s, NEW k \in Key, NEW amount, NEW t, Whole(t), Assigned(s, t, k, amount)
  PROVE  Stage(s, k, amount, t)
  <1>1. /\ t.balances \in Records
        /\ \A j \in Entries(t) : InArray(t, j)
        /\ \A j \in Key : ReadOf(t, j) = BalanceOf(t, j)
    BY WholeReads
  <1>2. \A j \in Key : BalanceOf(t, j) = IF j = k THEN amount ELSE BalanceOf(s, j)
    BY DEF Assigned
  <1>3. QED
    BY <1>1, <1>2 DEF Stage

\* push_back of a balance nothing points to yet (ledger_impl.cpp:1430).
LEMMA PushedStage ==
  ASSUME NEW s, Whole(s), NEW k \in Key, NEW amount \in Amounts, NEW x,
         x.account_asset_balance = s.account_asset_balance,
         x.balances = s.balances,
         x.virtual_balances = Append(s.virtual_balances, amount)
  PROVE  Stage(s, k, amount, x)
  <1>1. /\ Entries(x) = Entries(s)
        /\ \A j : IsVirtual(x, j) <=> IsVirtual(s, j)
        /\ \A j : At(x, j) = At(s, j)
    BY DEF Entries, IsVirtual, At
  <1>2. /\ DOMAIN x.virtual_balances = 1..(Len(s.virtual_balances) + 1)
        /\ \A i \in 1..Len(s.virtual_balances) :
             x.virtual_balances[i] = s.virtual_balances[i]
    BY WholeReads, AppendProperties, LenProperties
  <1>3. Len(s.virtual_balances) \in Nat
    BY WholeReads
  <1>4. \A i \in 1..Len(s.virtual_balances) : i \in DOMAIN x.virtual_balances
    BY <1>2, <1>3
  <1>5. \A j \in Entries(x) : InArray(x, j)
    BY <1>1, <1>4, WholeReads DEF InArray, Records
  <1>6. \A j \in Key : ReadOf(x, j) = BalanceOf(s, j)
    BY <1>1, <1>2, <1>5, WholeReads DEF ReadOf, BalanceOf
  <1>7. QED
    BY <1>5, <1>6, WholeReads DEF Stage

\* A record nothing points to yet (ledger_impl.cpp:1407-1422).
LEMMA RecordedStage ==
  ASSUME NEW s, Whole(s), NEW k \in Key, NEW amount, NEW x, NEW at,
         at = Len(s.last_balances) + 1, NEW record \in [header: Header, amount: Amounts],
         x.account_asset_balance = s.account_asset_balance,
         x.balances = [s.balances EXCEPT ![at] = record],
         x.virtual_balances = s.virtual_balances
  PROVE  Stage(s, k, amount, x)
  <1>1. /\ Entries(x) = Entries(s)
        /\ \A j : IsVirtual(x, j) <=> IsVirtual(s, j)
        /\ \A j : At(x, j) = At(s, j)
    BY DEF Entries, IsVirtual, At
  <1>2. /\ s.balances \in Records
        /\ x.balances \in Records
        /\ \A i \in 1..MaxBalances : i # at => x.balances[i] = s.balances[i]
    <2>1. s.balances \in Records
      BY WholeReads
    <2>2. QED
      BY <2>1 DEF Records
  <1>3. \A j \in Entries(x) : InArray(x, j)
    BY <1>1, <1>2, WholeReads DEF InArray, Records
  <1>4. ASSUME NEW j \in Entries(s), ~IsVirtual(s, j)
        PROVE  At(s, j) # at
    <2>1. At(s, j) \in 1..Len(s.last_balances) /\ Len(s.last_balances) \in Nat
      BY <1>4, WholeFacts
    <2>2. QED
      BY <2>1
  <1>5. \A j \in Key : ReadOf(x, j) = BalanceOf(s, j)
    BY <1>1, <1>2, <1>3, <1>4, WholeReads DEF ReadOf, BalanceOf
  <1>6. QED
    BY <1>2, <1>3, <1>5 DEF Stage

\* Who owns the last position, and where the two entries of a drop are.
LEMMA LastVirtual ==
  ASSUME NEW s, Whole(s), NEW k \in Entries(s), IsVirtual(s, k)
  PROVE  /\ MovedIn(s, k) = Last(s.last_virtual_balances)
         /\ MovedIn(s, k) \in Entries(s)
         /\ IsVirtual(s, MovedIn(s, k))
         /\ At(s, MovedIn(s, k)) = Len(s.virtual_balances)
         /\ At(s, k) \in 1..Len(s.virtual_balances)
         /\ Len(s.virtual_balances) \in Nat \ {0}
  <1> DEFINE list == s.last_virtual_balances
  <1>1. /\ DOMAIN list = 1..Len(list)
        /\ Len(list) \in Nat
        /\ At(s, k) \in 1..Len(list)
        /\ Len(s.virtual_balances) = Len(list)
    BY WholeFacts, WholeReads
  <1>2. Len(list) \in 1..Len(list) /\ Last(list) = list[Len(list)]
    BY <1>1 DEF Last
  <1>3. /\ Last(list) \in Entries(s)
        /\ IsVirtual(s, Last(list))
        /\ At(s, Last(list)) = Len(list)
    BY <1>1, <1>2 DEF Whole, Packed, ListMatchesMap, IsVirtual
  <1>4. MovedIn(s, k) = Last(list)
    BY DEF MovedIn
  <1>5. QED
    BY <1>1, <1>3, <1>4

LEMMA LastRecord ==
  ASSUME NEW s, Whole(s), NEW k \in Entries(s), ~IsVirtual(s, k)
  PROVE  /\ MovedIn(s, k) = Last(s.last_balances)
         /\ MovedIn(s, k) \in Entries(s)
         /\ ~IsVirtual(s, MovedIn(s, k))
         /\ At(s, MovedIn(s, k)) = Len(s.last_balances)
         /\ At(s, k) \in 1..Len(s.last_balances)
         /\ Len(s.last_balances) \in 1..MaxBalances
         /\ At(s, k) \in 1..MaxBalances
  <1> DEFINE list == s.last_balances
  <1>1. /\ DOMAIN list = 1..Len(list)
        /\ Len(list) \in Nat
        /\ At(s, k) \in 1..Len(list)
        /\ MaxBalances \in Nat
        /\ Len(list) <= MaxBalances
    BY WholeFacts
  <1>2. Len(list) \in 1..Len(list) /\ Last(list) = list[Len(list)]
    BY <1>1 DEF Last
  <1>3. /\ Last(list) \in Entries(s)
        /\ s.account_asset_balance[Last(list)].type = "WITHDRAWABLE"
        /\ At(s, Last(list)) = Len(list)
    BY <1>1, <1>2 DEF Whole, Packed, ListMatchesMap
  <1>4. MovedIn(s, k) = Last(list)
    BY DEF MovedIn
  <1>5. ~IsVirtual(s, Last(list))
    BY <1>3 DEF IsVirtual
  <1>6. Len(list) \in 1..MaxBalances /\ At(s, k) \in 1..MaxBalances
    BY <1>1
  <1>7. QED
    BY <1>1, <1>3, <1>4, <1>5, <1>6

\* The entries of a drop under way: all of them are there, at their positions or, the
\* owner of the last one, at the dropped one's.
Repointing(s, k, x) ==
  /\ Entries(x) = Entries(s)
  /\ \A j \in Entries(s) :
       /\ IsVirtual(x, j) <=> IsVirtual(s, j)
       /\ \/ At(x, j) = At(s, j)
          \/ j = MovedIn(s, k) /\ At(x, j) = At(s, k)

\* virtual_balances, once the last balance is copied over the dropped one: before
\* and after its owner is pointed there, and once the last position is gone.
LEMMA VirtualCells ==
  ASSUME NEW s, Whole(s), NEW k \in Entries(s), IsVirtual(s, k), NEW x,
         Repointing(s, k, x), x.balances = s.balances,
         NEW n, n = Len(s.virtual_balances), NEW m \in {n - 1, n},
         DOMAIN x.virtual_balances = 1..m,
         \A i \in 1..m : x.virtual_balances[i] =
           IF i # At(s, k) THEN s.virtual_balances[i]
           ELSE IF i = n THEN 0 ELSE s.virtual_balances[n],
         m = n \/ At(x, MovedIn(s, k)) = At(s, k)
  PROVE  Stage(s, k, 0, x)
  <1> DEFINE at == At(s, k)
             last == MovedIn(s, k)
  <1>1. /\ last \in Entries(s) /\ IsVirtual(s, last) /\ At(s, last) = n
        /\ at \in 1..n /\ n \in Nat \ {0} /\ m \in Nat
    <2>1. /\ last \in Entries(s) /\ IsVirtual(s, last) /\ At(s, last) = n
          /\ at \in 1..n /\ n \in Nat \ {0}
      BY LastVirtual
    <2>2. QED
      BY <2>1
  <1>2. k \in Key /\ Drops(s, k, 0)
    BY WholeReads DEF Drops
  <1>3. BalanceOf(s, last) = s.virtual_balances[n]
    BY <1>1 DEF BalanceOf
  <1>4. at = n <=> k = last
    BY <1>1, PositionsDiffer
  <1> HIDE DEF at, last
  <1>5. ASSUME NEW j \in Entries(s), IsVirtual(s, j), j # k, j # last
        PROVE  /\ At(x, j) \in DOMAIN x.virtual_balances
               /\ x.virtual_balances[At(x, j)] = s.virtual_balances[At(s, j)]
    <2>1. At(x, j) = At(s, j) /\ At(s, j) \in 1..n
      BY <1>5, WholeReads DEF Repointing, last
    <2>2. At(s, j) # n /\ At(s, j) # at
      BY <1>1, <1>5, PositionsDiffer DEF at
    <2>3. At(s, j) \in 1..m
      BY <1>1, <2>1, <2>2
    <2>4. QED
      BY <2>1, <2>2, <2>3 DEF at
  <1>6. ASSUME last # k
        PROVE  /\ At(x, last) \in DOMAIN x.virtual_balances
               /\ x.virtual_balances[At(x, last)] = s.virtual_balances[n]
    <2>1. at # n /\ at \in 1..m
      BY <1>1, <1>4, <1>6
    <2>2. CASE At(x, last) = at
      BY <2>1, <2>2 DEF at
    <2>3. CASE At(x, last) # at
      <3>1. At(x, last) = n /\ m = n /\ n \in 1..m
        BY <1>1, <2>3 DEF Repointing, at, last
      <3>2. QED
        BY <2>1, <3>1 DEF at
    <2>4. QED
      BY <2>2, <2>3
  <1>7. At(x, k) = at
    BY DEF Repointing, at
  <1>8. ASSUME NEW j \in Entries(s), j # k
        PROVE  InArray(x, j) /\ ReadOf(x, j) = BalanceOf(s, j)
    <2>1. CASE ~IsVirtual(s, j)
      <3>1. ~IsVirtual(x, j) /\ At(x, j) = At(s, j) /\ j \in Entries(x)
        BY <1>1, <2>1 DEF Repointing, last
      <3>2. InArray(x, j)
        BY <2>1, <3>1, WholeReads DEF InArray, Records
      <3>3. QED
        BY <2>1, <3>1, <3>2 DEF ReadOf, BalanceOf
    <2>2. CASE IsVirtual(s, j)
      <3>1. IsVirtual(x, j) /\ j \in Entries(x)
        BY <2>2 DEF Repointing
      <3>2. /\ At(x, j) \in DOMAIN x.virtual_balances
            /\ x.virtual_balances[At(x, j)] = BalanceOf(s, j)
        <4>1. CASE j = last
          BY <1>3, <1>6, <1>8, <4>1
        <4>2. CASE j # last
          BY <1>5, <1>8, <2>2, <4>2 DEF BalanceOf
        <4>3. QED
          BY <4>1, <4>2
      <3>3. QED
        BY <3>1, <3>2 DEF InArray, ReadOf, BalanceOf
    <2>3. QED
      BY <2>1, <2>2
  <1>9. ReadOf(x, k) \in {0, BalanceOf(s, last)}
    <2>1. IsVirtual(x, k) /\ k \in Entries(x)
      BY DEF Repointing
    <2>2. CASE at \in DOMAIN x.virtual_balances
      <3>1. x.virtual_balances[at] \in {0, s.virtual_balances[n]}
        BY <2>2 DEF at
      <3>2. QED
        BY <1>3, <1>7, <2>1, <2>2, <3>1 DEF ReadOf, InArray, BalanceOf
    <2>3. CASE at \notin DOMAIN x.virtual_balances
      BY <1>7, <2>1, <2>3 DEF ReadOf, InArray
    <2>4. QED
      BY <2>2, <2>3
  <1>10. \A j \in Key : j \notin Entries(s) => ReadOf(x, j) = BalanceOf(s, j)
    BY DEF Repointing, ReadOf, BalanceOf
  <1>11. x.balances \in Records
    BY WholeReads
  <1>12. QED
    BY <1>2, <1>8, <1>9, <1>10, <1>11 DEF Stage, Repointing, last

\* The array of records, from the first field copied over the dropped record to the
\* map's last key pointed there: what is in the two records is what was in the last
\* one, or zero.
LEMMA RecordCells ==
  ASSUME NEW s, Whole(s), NEW k \in Entries(s), ~IsVirtual(s, k), NEW x,
         Repointing(s, k, x), x.virtual_balances = s.virtual_balances,
         NEW n, n = Len(s.last_balances), x.balances \in Records,
         \A i \in 1..MaxBalances \ {At(s, k), n} : x.balances[i] = s.balances[i],
         \A i \in {At(s, k), n} : x.balances[i].amount \in {0, s.balances[n].amount}
  PROVE  Stage(s, k, 0, x)
  <1> DEFINE at == At(s, k)
             last == MovedIn(s, k)
  <1>1. /\ last \in Entries(s) /\ ~IsVirtual(s, last) /\ At(s, last) = n
        /\ at \in 1..MaxBalances /\ n \in 1..MaxBalances
    BY LastRecord
  <1>2. k \in Key /\ Drops(s, k, 0)
    BY WholeReads DEF Drops
  <1>3. BalanceOf(s, last) = s.balances[n].amount
    BY <1>1 DEF BalanceOf
  <1> HIDE DEF at, last
  <1>4. DOMAIN x.balances = 1..MaxBalances /\ DOMAIN s.balances = 1..MaxBalances
    BY WholeReads DEF Records
  <1>5. ASSUME NEW j \in Entries(s), IsVirtual(s, j)
        PROVE  InArray(x, j) /\ ReadOf(x, j) = BalanceOf(s, j)
    <2>1. IsVirtual(x, j) /\ At(x, j) = At(s, j) /\ j \in Entries(x)
      BY <1>1, <1>5 DEF Repointing, last
    <2>2. InArray(x, j)
      BY <1>5, <2>1, WholeReads DEF InArray
    <2>3. QED
      BY <1>5, <2>1, <2>2 DEF ReadOf, BalanceOf
  <1>6. ASSUME NEW j \in Entries(s), ~IsVirtual(s, j), j # k, j # last
        PROVE  InArray(x, j) /\ ReadOf(x, j) = BalanceOf(s, j)
    <2>1. At(x, j) = At(s, j) /\ At(s, j) \in 1..MaxBalances /\ j \in Entries(x)
          /\ ~IsVirtual(x, j)
      BY <1>6, WholeReads DEF Repointing, last
    <2>2. At(s, j) # n /\ At(s, j) # at
      BY <1>1, <1>6, PositionsDiffer DEF at
    <2>3. InArray(x, j)
      BY <1>4, <2>1 DEF InArray
    <2>4. x.balances[At(s, j)] = s.balances[At(s, j)]
      BY <2>1, <2>2 DEF at
    <2>5. QED
      BY <1>6, <2>1, <2>3, <2>4 DEF ReadOf, BalanceOf
  <1>7. ASSUME NEW j \in {k, last}
        PROVE  InArray(x, j) /\ ReadOf(x, j) \in {0, BalanceOf(s, last)}
    <2>1. j \in Entries(x) /\ ~IsVirtual(x, j) /\ At(x, j) \in {at, n}
      BY <1>1 DEF Repointing, at, last
    <2>2. InArray(x, j)
      BY <1>1, <1>4, <2>1 DEF InArray
    <2>3. x.balances[At(x, j)].amount \in {0, s.balances[n].amount}
      BY <2>1 DEF at
    <2>4. QED
      BY <1>3, <2>1, <2>2, <2>3 DEF ReadOf, BalanceOf
  <1>8. \A j \in Key : j \notin Entries(s) => ReadOf(x, j) = BalanceOf(s, j)
    BY DEF Repointing, ReadOf, BalanceOf
  <1>9. \A j \in Entries(x) : InArray(x, j)
    BY <1>5, <1>6, <1>7 DEF Repointing
  <1>10. ASSUME NEW j \in Key \ {k}
         PROVE  \/ ReadOf(x, j) = BalanceOf(s, j)
                \/ ReadOf(x, j) = 0 /\ j = last /\ ~IsVirtual(s, j)
    BY <1>1, <1>5, <1>6, <1>7, <1>8
  <1>11. ReadOf(x, k) \in {BalanceOf(s, k), 0} \/ ReadOf(x, k) = BalanceOf(s, last)
    BY <1>7
  <1>12. QED
    BY <1>2, <1>9, <1>10, <1>11 DEF Stage, last

\* What the writes of a set are: stages of it, the last one its table.
Staged(s, k, amount, list) ==
  /\ Len(list) \in Nat \ {0}
  /\ DOMAIN list = 1..Len(list)
  /\ \A i \in 1..Len(list) : Stage(s, k, amount, list[i])
  /\ Last(list) = SetBalance(s, k, k \in Withdrawable, HeaderFor(k), amount)

\* A table with one of its members written.
Is(s, map, records, owners, virtuals, virtual_owners, counts) ==
  /\ s = Table(map, records, owners, virtuals, virtual_owners, counts)
  /\ s.account_asset_balance = map
  /\ s.balances = records
  /\ s.last_balances = owners
  /\ s.virtual_balances = virtuals
  /\ s.last_virtual_balances = virtual_owners
  /\ s.n_balances = counts

LEMMA MembersOf ==
  ASSUME NEW m, NEW r, NEW o, NEW v, NEW w, NEW c
  PROVE  Is(Table(m, r, o, v, w, c), m, r, o, v, w, c)
  BY DEF Is, Table

LEMMA Written ==
  ASSUME NEW s, NEW m, NEW r, NEW o, NEW v, NEW w, NEW c, Is(s, m, r, o, v, w, c), NEW x
  PROVE  /\ Is([s EXCEPT !.account_asset_balance = x], x, r, o, v, w, c)
         /\ Is([s EXCEPT !.balances = x], m, x, o, v, w, c)
         /\ Is([s EXCEPT !.last_balances = x], m, r, x, v, w, c)
         /\ Is([s EXCEPT !.virtual_balances = x], m, r, o, x, w, c)
         /\ Is([s EXCEPT !.last_virtual_balances = x], m, r, o, v, x, c)
         /\ Is([s EXCEPT !.n_balances = x], m, r, o, v, w, x)
  <1>1. /\ [s EXCEPT !.account_asset_balance = x] = Table(x, r, o, v, w, c)
        /\ [s EXCEPT !.balances = x] = Table(m, x, o, v, w, c)
        /\ [s EXCEPT !.last_balances = x] = Table(m, r, x, v, w, c)
        /\ [s EXCEPT !.virtual_balances = x] = Table(m, r, o, x, w, c)
        /\ [s EXCEPT !.last_virtual_balances = x] = Table(m, r, o, v, x, c)
        /\ [s EXCEPT !.n_balances = x] = Table(m, r, o, v, w, x)
    BY DEF Is, Table
  <1>2. QED
    BY <1>1, MembersOf

LEMMA WholeMembers ==
  ASSUME NEW s, Whole(s)
  PROVE  Is(s, s.account_asset_balance, s.balances, s.last_balances,
            s.virtual_balances, s.last_virtual_balances, s.n_balances)
  BY DEF Whole, TableType, Is

LEMMA NewVirtualStaged ==
  ASSUME NEW s, Whole(s), NEW k \in Key, k \notin Entries(s), ~Full(s),
         k \notin Withdrawable, NEW amount \in Amounts
  PROVE  Staged(s, k, amount, NewVirtualWrites(s, k, amount))
  <1> DEFINE t == NewVirtual(s, k, amount)
             pushed  == [s EXCEPT !.virtual_balances = Append(@, amount)]
             listed  == [pushed EXCEPT !.last_virtual_balances = Append(@, k)]
             mapped  == [listed EXCEPT !.account_asset_balance =
                           Insert(@, k, [type |-> "VIRTUAL", at |-> Len(pushed.virtual_balances)])]
             counted == [mapped EXCEPT !.n_balances = Count(@, k[2], 1)]
             list == <<pushed, listed, mapped, counted>>
  <1>1. NewVirtualWrites(s, k, amount) = list
    BY DEF NewVirtualWrites
  <1> DEFINE m == s.account_asset_balance
             v == Append(s.virtual_balances, amount)
             w == Append(s.last_virtual_balances, k)
  <1>2. /\ Is(s, m, s.balances, s.last_balances, s.virtual_balances,
              s.last_virtual_balances, s.n_balances)
        /\ Len(v) = Len(s.virtual_balances) + 1
    BY WholeMembers, WholeReads, AppendProperties
  <1> HIDE DEF m, v, w
  <1>3. Is(pushed, m, s.balances, s.last_balances, v, s.last_virtual_balances, s.n_balances)
    <2>1. pushed = [s EXCEPT !.virtual_balances = v]
      BY DEF v
    <2> HIDE DEF pushed
    <2>2. QED
      BY <1>2, <2>1, Written
  <1> HIDE DEF pushed
  <1>4. Is(listed, m, s.balances, s.last_balances, v, w, s.n_balances)
    <2>1. listed = [pushed EXCEPT !.last_virtual_balances = w]
      BY <1>3 DEF Is, w
    <2> HIDE DEF listed
    <2>2. QED
      BY <1>3, <2>1, Written
  <1> HIDE DEF listed
  <1>5. Is(mapped, t.account_asset_balance, s.balances, s.last_balances, v, w, s.n_balances)
    <2>1. mapped = [listed EXCEPT !.account_asset_balance = t.account_asset_balance]
      BY <1>2, <1>3, <1>4 DEF Is, NewVirtual, Table, m, v
    <2> HIDE DEF mapped, t
    <2>2. QED
      BY <1>4, <2>1, Written
  <1> HIDE DEF mapped
  <1>6. counted = t
    <2>1. Is(counted, t.account_asset_balance, s.balances, s.last_balances, v, w, t.n_balances)
      <3>1. counted = [mapped EXCEPT !.n_balances = t.n_balances]
        BY <1>5 DEF Is, NewVirtual, Table
      <3>2. QED
        BY <1>5, <3>1, Written
    <2>2. t = Table(t.account_asset_balance, s.balances, s.last_balances, v, w, t.n_balances)
      BY DEF NewVirtual, Table, v, w
    <2>3. QED
      BY <2>1, <2>2 DEF Is
  <1> HIDE DEF counted
  <1>7. Stage(s, k, amount, pushed) /\ Stage(s, k, amount, listed)
    BY <1>3, <1>4, PushedStage DEF Is, m, v
  <1>8. Stage(s, k, amount, t)
    BY NewVirtualKeeps, WholeStage
  <1>9. Stage(s, k, amount, mapped)
    <2>1. /\ mapped.account_asset_balance = t.account_asset_balance
          /\ mapped.balances = t.balances
          /\ mapped.virtual_balances = t.virtual_balances
      BY <1>5 DEF Is, Table, NewVirtual, v
    <2> HIDE DEF t
    <2>2. QED
      BY <1>8, <2>1, SameCells
  <1>10. SetBalance(s, k, k \in Withdrawable, HeaderFor(k), amount) = t
    BY DEF SetBalance
  <1> HIDE DEF t
  <1>11. /\ Len(list) = 4 /\ DOMAIN list = 1..4 /\ Last(list) = t
         /\ list[1] = pushed /\ list[2] = listed /\ list[3] = mapped /\ list[4] = t
    BY <1>6 DEF Last
  <1> HIDE DEF list
  <1>12. \A i \in 1..4 : i = 1 \/ i = 2 \/ i = 3 \/ i = 4
    OBVIOUS
  <1>13. QED
    BY <1>1, <1>7, <1>8, <1>9, <1>10, <1>11, <1>12 DEF Staged

LEMMA NewWithdrawableStaged ==
  ASSUME NEW s, Whole(s), NEW k \in Key, k \notin Entries(s), ~Full(s),
         k \in Withdrawable, NEW amount \in Amounts
  PROVE  Staged(s, k, amount, NewWithdrawableWrites(s, k, HeaderFor(k), amount))
  <1> DEFINE header == HeaderFor(k)
             t == NewWithdrawable(s, k, header, amount)
             at == Len(s.last_balances) + 1
             record == WriteRecord(s.balances[at], header, amount)
             recorded == [s EXCEPT !.balances[at] = WriteRecord(@, header, amount)]
             listed   == [recorded EXCEPT !.last_balances = Append(@, k)]
             mapped   == [listed EXCEPT !.account_asset_balance =
                            Insert(@, k, [type |-> "WITHDRAWABLE", at |-> at])]
             counted  == [mapped EXCEPT !.n_balances = Count(@, k[2], 1)]
             list == <<recorded, listed, mapped, counted>>
  <1>1. NewWithdrawableWrites(s, k, HeaderFor(k), amount) = list
    BY DEF NewWithdrawableWrites
  <1> DEFINE m == s.account_asset_balance
             v == s.virtual_balances
             w == s.last_virtual_balances
  <1>2. Is(s, m, s.balances, s.last_balances, v, w, s.n_balances)
    BY WholeMembers
  <1>3. at \in 1..MaxBalances
    <2> DEFINE n == Cardinality(Entries(s))
               l == Len(s.last_balances)
               lv == Len(s.last_virtual_balances)
    <2>1. /\ n \in Nat /\ l \in Nat /\ lv \in Nat /\ MaxBalances \in Nat
          /\ n = l + lv /\ ~(n >= MaxBalances)
      BY WholeFacts DEF Whole, WithinLimit, Full
    <2> HIDE DEF n, l, lv
    <2>2. l + 1 \in 1..MaxBalances
      BY <2>1
    <2>3. QED
      BY <2>2 DEF l
  <1>4. s.balances \in [1..MaxBalances -> [header: Header, amount: Amounts]]
    BY DEF Whole, TableType
  <1>5. Describes(header)
    BY HeaderDescribes
  <1>6. record \in [header: Header, amount: Amounts]
    <2>1. s.balances[at] \in [header: Header, amount: Amounts]
      BY <1>3, <1>4
    <2>2. QED
      BY <1>5, <2>1, WriteRecordType
  <1> HIDE DEF header, at
  <1> HIDE DEF m, v, w
  <1>7. Is(recorded, m, t.balances, s.last_balances, v, w, s.n_balances)
    <2>1. recorded = [s EXCEPT !.balances = t.balances]
      BY DEF NewWithdrawable, Table, at
    <2> HIDE DEF recorded, t
    <2>2. QED
      BY <1>2, <2>1, Written
  <1> HIDE DEF recorded
  <1>8. Is(listed, m, t.balances, t.last_balances, v, w, s.n_balances)
    <2>1. listed = [recorded EXCEPT !.last_balances = t.last_balances]
      BY <1>7 DEF Is, NewWithdrawable, Table
    <2> HIDE DEF listed, t
    <2>2. QED
      BY <1>7, <2>1, Written
  <1> HIDE DEF listed
  <1>9. Is(mapped, t.account_asset_balance, t.balances, t.last_balances, v, w, s.n_balances)
    <2>1. mapped = [listed EXCEPT !.account_asset_balance = t.account_asset_balance]
      BY <1>8 DEF Is, NewWithdrawable, Table, m, at
    <2> HIDE DEF mapped, t
    <2>2. QED
      BY <1>8, <2>1, Written
  <1> HIDE DEF mapped
  <1>10. counted = t
    <2>1. counted = [mapped EXCEPT !.n_balances = t.n_balances]
      BY <1>9 DEF Is, NewWithdrawable, Table
    <2>2. Is(counted, t.account_asset_balance, t.balances, t.last_balances, v, w, t.n_balances)
      BY <1>9, <2>1, Written
    <2>3. t = Table(t.account_asset_balance, t.balances, t.last_balances, v, w, t.n_balances)
      BY DEF NewWithdrawable, Table, v, w
    <2>4. QED
      BY <2>2, <2>3 DEF Is
  <1> HIDE DEF counted, record
  <1>11. Stage(s, k, amount, recorded) /\ Stage(s, k, amount, listed)
    <2>1. t.balances = [s.balances EXCEPT ![at] = record]
      BY DEF NewWithdrawable, Table, at, record
    <2>2. QED
      BY <1>6, <1>7, <1>8, <2>1, RecordedStage DEF Is, at, m, v
  <1>12. Stage(s, k, amount, t)
    <2>1. Whole(t) /\ Assigned(s, t, k, amount)
      BY <1>5, NewWithdrawableKeeps
    <2> HIDE DEF t
    <2>2. QED
      BY <2>1, WholeStage
  <1>13. Stage(s, k, amount, mapped)
    <2>1. /\ mapped.account_asset_balance = t.account_asset_balance
          /\ mapped.balances = t.balances
          /\ mapped.virtual_balances = t.virtual_balances
      BY <1>9 DEF Is, Table, NewWithdrawable, v
    <2> HIDE DEF t
    <2>2. QED
      BY <1>12, <2>1, SameCells
  <1>14. SetBalance(s, k, k \in Withdrawable, HeaderFor(k), amount) = t
    BY DEF SetBalance, header
  <1> HIDE DEF t
  <1>15. /\ Len(list) = 4 /\ DOMAIN list = 1..4 /\ Last(list) = t
         /\ list[1] = recorded /\ list[2] = listed /\ list[3] = mapped /\ list[4] = t
    BY <1>10 DEF Last
  <1> HIDE DEF list
  <1>16. \A i \in 1..4 : i = 1 \/ i = 2 \/ i = 3 \/ i = 4
    OBVIOUS
  <1>17. QED
    BY <1>1, <1>11, <1>12, <1>13, <1>14, <1>15, <1>16 DEF Staged

LEMMA OverwriteStaged ==
  ASSUME NEW s, Whole(s), NEW k \in Entries(s), NEW amount \in Amounts, amount # 0
  PROVE  Staged(s, k, amount, <<SetBalance(s, k, FALSE, NoHeader, amount)>>)
  <1> DEFINE t == SetBalance(s, k, FALSE, NoHeader, amount)
             list == <<t>>
  <1>1. k \in Key
    BY WholeReads
  <1>2. Stage(s, k, amount, t)
    <2>1. SetsBalance(s, t, k, FALSE, NoHeader, amount)
      BY <1>1, SetBalanceWhole
    <2> HIDE DEF t
    <2>2. QED
      BY <1>1, <2>1, WholeStage DEF SetsBalance
  <1>3. SetBalance(s, k, k \in Withdrawable, HeaderFor(k), amount) = t
    BY DEF SetBalance
  <1> HIDE DEF t
  <1>4. Len(list) = 1 /\ DOMAIN list = 1..1 /\ Last(list) = t /\ list[1] = t
    BY DEF Last
  <1> HIDE DEF list
  <1>5. Staged(s, k, amount, list)
    BY <1>2, <1>3, <1>4 DEF Staged
  <1>6. QED
    BY <1>5 DEF list, t

LEMMA FrontSame ==
  ASSUME NEW S, NEW a \in Seq(S), NEW b \in Seq(S), Len(a) = Len(b), Len(a) \in Nat \ {0},
         \A i \in 1..(Len(a) - 1) : a[i] = b[i]
  PROVE  /\ Front(a) = Front(b)
         /\ DOMAIN Front(a) = 1..(Len(a) - 1)
         /\ \A i \in 1..(Len(a) - 1) : Front(a)[i] = a[i]
  <1> DEFINE n == Len(a)
  <1>1. ASSUME NEW c \in Seq(S), Len(c) = n
        PROVE  /\ Front(c) \in Seq(S)
               /\ Len(Front(c)) = n - 1
               /\ DOMAIN Front(c) = 1..(n - 1)
               /\ \A i \in 1..(n - 1) : Front(c)[i] = c[i]
    <2>1. Front(c) = SubSeq(c, 1, n - 1)
      BY <1>1 DEF Front
    <2>2. \A i \in 1..(n - 1) : c[i] \in S
      BY <1>1, ElementOfSeq
    <2>3. n - 1 \in Nat /\ (1 - 1) + (n - 1) = n - 1
      OBVIOUS
    <2>4. /\ SubSeq(c, 1, n - 1) \in Seq(S)
          /\ Len(SubSeq(c, 1, n - 1)) = n - 1
          /\ \A i \in 1..(n - 1) : SubSeq(c, 1, n - 1)[i] = c[i]
      BY <2>2, <2>3, SubSeqProperties
    <2>5. QED
      BY <2>1, <2>4, LenProperties
  <1>2. \A i \in 1..(n - 1) : Front(a)[i] = Front(b)[i]
    BY <1>1
  <1>3. Front(a) = Front(b)
    BY <1>1, <1>2, SeqEqual
  <1>4. QED
    BY <1>1, <1>3

\* "point last balance to current position" in the map, and k's entry erased.
LEMMA RepointedMap ==
  ASSUME NEW s, Whole(s), NEW k \in Entries(s), NEW last \in Entries(s),
         NEW map, map = [s.account_asset_balance EXCEPT ![last].at = At(s, k)]
  PROVE  /\ DOMAIN map = Entries(s)
         /\ \A j \in Entries(s) :
              /\ map[j].type = s.account_asset_balance[j].type
              /\ map[j].at = IF j = last THEN At(s, k) ELSE At(s, j)
         /\ Erase(map, k) = Repoint(s.account_asset_balance, k, last)
  <1> DEFINE old == s.account_asset_balance
  <1>1. /\ old \in [Entries(s) -> [type: {"VIRTUAL", "WITHDRAWABLE"}, at: Nat \ {0}]]
        /\ \A j : At(s, j) = old[j].at
    BY DEF Whole, TableType, At
  <1>2. map = [old EXCEPT ![last] = [type |-> old[last].type, at |-> old[k].at]]
    <2>1. [old[last] EXCEPT !.at = old[k].at] =
            [type |-> old[last].type, at |-> old[k].at]
      BY <1>1
    <2>2. map = [old EXCEPT ![last] = [old[last] EXCEPT !.at = old[k].at]]
      BY <1>1
    <2>3. QED
      BY <2>1, <2>2
  <1>3. /\ DOMAIN map = Entries(s)
        /\ \A j \in Entries(s) :
             map[j] = IF j = last THEN [type |-> old[last].type, at |-> old[k].at] ELSE old[j]
    BY <1>1, <1>2
  <1>4. Erase(map, k) = Repoint(old, k, last)
    BY <1>2 DEF Repoint
  <1>5. QED
    BY <1>1, <1>3, <1>4

LEMMA DropVirtualStaged ==
  ASSUME NEW s, Whole(s), NEW k \in Entries(s), IsVirtual(s, k)
  PROVE  Staged(s, k, 0, DropVirtualWrites(s, k))
  <1> DEFINE m == s.account_asset_balance
             r == s.balances
             o == s.last_balances
             v == s.virtual_balances
             w == s.last_virtual_balances
             c == s.n_balances
             n == Len(v)
             at == At(s, k)
             last == Last(w)
             t == DropVirtual(s, k)
             zeroed   == OverwriteVirtual(s, k, 0)
             copied   == [zeroed EXCEPT !.virtual_balances = MoveTo(@, At(s, last), At(s, k))]
             repoint  == [copied EXCEPT !.account_asset_balance[last].at = At(s, k)]
             listed   == [repoint EXCEPT !.last_virtual_balances[PositionOf(w, k)] = last]
             counted  == [listed EXCEPT !.n_balances = Count(@, k[2], -1)]
             unlisted == [counted EXCEPT !.last_virtual_balances = Front(@)]
             unpushed == [unlisted EXCEPT !.virtual_balances = Front(@)]
             erased   == [unpushed EXCEPT !.account_asset_balance = Erase(@, k)]
             list == <<zeroed, copied, repoint, listed, counted, unlisted, unpushed, erased>>
             zv == [v EXCEPT ![at] = 0]
             cv == MoveTo(zv, n, at)
             pv == MoveTo(v, n, at)
             m2 == [m EXCEPT ![last].at = at]
             w2 == [w EXCEPT ![PositionOf(w, k)] = last]
  <1>1. DropVirtualWrites(s, k) = list
    BY DEF DropVirtualWrites
  <1>2. /\ last = MovedIn(s, k) /\ last \in Entries(s) /\ IsVirtual(s, last)
        /\ At(s, last) = n /\ at \in 1..n /\ n \in Nat \ {0}
    BY LastVirtual
  <1>3. k \in Key /\ v \in Seq(Amounts) /\ DOMAIN v = 1..n /\ 0 \in Amounts
    BY WholeReads, TypesAssumption DEF Amounts
  <1> HIDE DEF n, at
  <1>4. /\ cv \in Seq(Amounts) /\ Len(cv) = n /\ DOMAIN cv = 1..n
        /\ \A i \in 1..n : cv[i] = IF i # at THEN v[i] ELSE IF i = n THEN 0 ELSE v[n]
    <2>1. /\ zv \in Seq(Amounts) /\ Len(zv) = n
          /\ \A i \in 1..n : zv[i] = IF i = at THEN 0 ELSE v[i]
      BY <1>2, <1>3, ExceptSeq DEF n
    <2> HIDE DEF zv
    <2>2. n \in 1..n /\ zv[n] \in Amounts
      BY <1>2, <2>1, ElementOfSeq
    <2>3. /\ cv \in Seq(Amounts) /\ Len(cv) = n
          /\ \A i \in 1..n : cv[i] = IF i = at THEN zv[n] ELSE zv[i]
      BY <1>2, <2>1, <2>2, ExceptSeq DEF MoveTo
    <2> HIDE DEF cv
    <2>4. QED
      BY <1>2, <2>1, <2>2, <2>3, LenProperties
  <1>5. /\ Front(cv) = Front(pv)
        /\ DOMAIN Front(cv) = 1..(n - 1)
        /\ \A i \in 1..(n - 1) : Front(cv)[i] = cv[i]
    <2>1. n \in 1..n /\ v[n] \in Amounts
      BY <1>2, <1>3, ElementOfSeq DEF n
    <2>2. /\ pv \in Seq(Amounts) /\ Len(pv) = n
          /\ \A i \in 1..n : pv[i] = IF i = at THEN v[n] ELSE v[i]
      BY <1>2, <1>3, <2>1, ExceptSeq DEF MoveTo, n
    <2> HIDE DEF cv, pv
    <2>3. \A i \in 1..(n - 1) : cv[i] = pv[i]
      BY <1>2, <1>4, <2>2
    <2>4. QED
      BY <1>2, <1>4, <2>2, <2>3, FrontSame
  <1>6. /\ DOMAIN m2 = Entries(s)
        /\ \A j \in Entries(s) :
             /\ m2[j].type = m[j].type
             /\ m2[j].at = IF j = last THEN at ELSE At(s, j)
        /\ Erase(m2, k) = Repoint(m, k, last)
    BY <1>2, RepointedMap DEF at
  <1>7. Is(s, m, r, o, v, w, c)
    BY WholeMembers
  <1> HIDE DEF m, r, o, v, w, c, zv, cv, pv, m2, last
  <1>8. Is(zeroed, m, r, o, zv, w, c)
    BY MembersOf DEF OverwriteVirtual, m, r, o, v, w, c, zv, at
  <1>9. Stage(s, k, 0, zeroed)
    BY <1>3, OverwriteVirtualKeeps, WholeStage
  <1> HIDE DEF zeroed
  <1>10. Is(copied, m, r, o, cv, w, c)
    <2>1. copied = [zeroed EXCEPT !.virtual_balances = cv]
      BY <1>2, <1>8 DEF Is, cv, at
    <2> HIDE DEF copied
    <2>2. QED
      BY <1>8, <2>1, Written
  <1> HIDE DEF copied
  <1>11. Is(repoint, m2, r, o, cv, w, c)
    <2>1. repoint = [copied EXCEPT !.account_asset_balance = m2]
      BY <1>10 DEF Is, m2, at
    <2> HIDE DEF repoint
    <2>2. QED
      BY <1>10, <2>1, Written
  <1> HIDE DEF repoint
  <1>12. Is(listed, m2, r, o, cv, w2, c)
    <2>1. listed = [repoint EXCEPT !.last_virtual_balances = w2]
      BY <1>11 DEF Is
    <2> HIDE DEF listed, w2
    <2>2. QED
      BY <1>11, <2>1, Written
  <1> HIDE DEF listed
  <1>13. Is(counted, m2, r, o, cv, w2, t.n_balances)
    <2>1. counted = [listed EXCEPT !.n_balances = t.n_balances]
      BY <1>12 DEF Is, DropVirtual, Table, c
    <2> HIDE DEF counted, t, w2
    <2>2. QED
      BY <1>12, <2>1, Written
  <1> HIDE DEF counted
  <1>14. Is(unlisted, m2, r, o, cv, t.last_virtual_balances, t.n_balances)
    <2>1. unlisted = [counted EXCEPT !.last_virtual_balances = t.last_virtual_balances]
      BY <1>13 DEF Is, DropVirtual, Table, SwapOut, w, last
    <2> HIDE DEF unlisted, t
    <2>2. QED
      BY <1>13, <2>1, Written
  <1> HIDE DEF unlisted
  <1>15. Is(unpushed, m2, r, o, Front(cv), t.last_virtual_balances, t.n_balances)
    <2>1. unpushed = [unlisted EXCEPT !.virtual_balances = Front(cv)]
      BY <1>14 DEF Is
    <2> HIDE DEF unpushed, t
    <2>2. QED
      BY <1>14, <2>1, Written
  <1> HIDE DEF unpushed
  <1>16. erased = t
    <2>1. erased = [unpushed EXCEPT !.account_asset_balance = Erase(m2, k)]
      BY <1>15 DEF Is
    <2>2. Is(erased, Erase(m2, k), r, o, Front(cv), t.last_virtual_balances, t.n_balances)
      <3> HIDE DEF erased, t
      <3>1. QED
        BY <1>15, <2>1, Written
    <2>3. t = Table(Erase(m2, k), r, o, Front(cv), t.last_virtual_balances, t.n_balances)
      BY <1>2, <1>5, <1>6 DEF DropVirtual, Table, m, r, o, v, w, last, at, pv
    <2>4. QED
      BY <2>2, <2>3 DEF Is
  <1> HIDE DEF erased
  <1>17. Stage(s, k, 0, t)
    BY <1>3, DropVirtualKeeps, WholeStage
  <1>18. Stage(s, k, 0, copied)
    <2>1. Repointing(s, k, copied)
      BY <1>10 DEF Is, Repointing, Entries, IsVirtual, At, m
    <2>2. QED
      BY <1>4, <1>10, <2>1, VirtualCells DEF Is, n, at, v, r
  <1>19. ASSUME NEW x, x.account_asset_balance = m2, x.balances = r
         PROVE  Repointing(s, k, x) /\ At(x, MovedIn(s, k)) = At(s, k)
    BY <1>2, <1>6, <1>19 DEF Repointing, Entries, IsVirtual, At, at, m
  <1>20. Stage(s, k, 0, repoint)
    <2>1. Repointing(s, k, repoint)
      BY <1>11, <1>19 DEF Is
    <2>2. QED
      BY <1>4, <1>11, <2>1, VirtualCells DEF Is, n, at, v, r
  <1>21. /\ Stage(s, k, 0, listed)
         /\ Stage(s, k, 0, counted)
         /\ Stage(s, k, 0, unlisted)
    BY <1>11, <1>12, <1>13, <1>14, <1>20, SameCells DEF Is
  <1>22. Stage(s, k, 0, unpushed)
    <2>1. Repointing(s, k, unpushed) /\ At(unpushed, MovedIn(s, k)) = At(s, k)
      BY <1>15, <1>19 DEF Is
    <2>2. /\ DOMAIN unpushed.virtual_balances = 1..(n - 1)
          /\ \A i \in 1..(n - 1) : unpushed.virtual_balances[i] =
               IF i # at THEN v[i] ELSE IF i = n THEN 0 ELSE v[n]
          /\ unpushed.balances = s.balances
      BY <1>2, <1>4, <1>5, <1>15 DEF Is, r
    <2>3. QED
      BY <2>1, <2>2, VirtualCells DEF n, at, v
  <1>23. SetBalance(s, k, k \in Withdrawable, HeaderFor(k), 0) = t
    BY DEF SetBalance
  <1> HIDE DEF t
  <1>24. /\ Len(list) = 8 /\ DOMAIN list = 1..8 /\ Last(list) = t
         /\ list[1] = zeroed /\ list[2] = copied /\ list[3] = repoint /\ list[4] = listed
         /\ list[5] = counted /\ list[6] = unlisted /\ list[7] = unpushed /\ list[8] = t
    BY <1>16 DEF Last
  <1> HIDE DEF list
  <1>25. \A i \in 1..8 : i \in {1, 2, 3, 4, 5, 6, 7, 8}
    OBVIOUS
  <1>26. \A i \in 1..8 : Stage(s, k, 0, list[i])
    BY <1>9, <1>17, <1>18, <1>20, <1>21, <1>22, <1>24, <1>25
  <1>27. QED
    BY <1>1, <1>23, <1>24, <1>26 DEF Staged

LEMMA DropWithdrawableStaged ==
  ASSUME NEW s, Whole(s), NEW k \in Entries(s), ~IsVirtual(s, k)
  PROVE  Staged(s, k, 0, DropWithdrawableWrites(s, k))
  <1> DEFINE m == s.account_asset_balance
             r == s.balances
             o == s.last_balances
             v == s.virtual_balances
             w == s.last_virtual_balances
             c == s.n_balances
             n == Len(o)
             at == At(s, k)
             last == Last(o)
             t == DropWithdrawable(s, k)
             zeroed   == OverwriteWithdrawable(s, k, 0)
             described == [zeroed EXCEPT !.balances[At(s, k)].header = r[At(s, last)].header]
             copied   == [described EXCEPT !.balances = MoveTo(@, At(s, last), At(s, k))]
             nullified == [copied EXCEPT !.balances[At(s, last)] = ZeroRecord]
             repoint  == [nullified EXCEPT !.account_asset_balance[last].at = At(s, k)]
             listed   == [repoint EXCEPT !.last_balances[PositionOf(o, k)] = last]
             counted  == [listed EXCEPT !.n_balances = Count(@, k[2], -1)]
             unlisted == [counted EXCEPT !.last_balances = Front(@)]
             erased   == [unlisted EXCEPT !.account_asset_balance = Erase(@, k)]
             list == <<zeroed, described, copied, nullified, repoint, listed, counted,
                       unlisted, erased>>
             zr == [r EXCEPT ![at] = [header |-> r[at].header, amount |-> 0]]
             dr == [zr EXCEPT ![at].header = r[n].header]
             cr == MoveTo(dr, n, at)
             nr == [cr EXCEPT ![n] = ZeroRecord]
             m2 == [m EXCEPT ![last].at = at]
             o2 == [o EXCEPT ![PositionOf(o, k)] = last]
  <1>1. DropWithdrawableWrites(s, k) = list
    BY DEF DropWithdrawableWrites
  <1>2. /\ last = MovedIn(s, k) /\ last \in Entries(s) /\ ~IsVirtual(s, last)
        /\ At(s, last) = n /\ at \in 1..MaxBalances /\ n \in 1..MaxBalances
    BY LastRecord
  <1>3. k \in Key /\ r \in Records /\ 0 \in Amounts
    BY WholeReads, TypesAssumption DEF Amounts
  <1> HIDE DEF n, at, r
  <1>4. /\ zr \in Records
        /\ \A i \in 1..MaxBalances \ {at} : zr[i] = r[i]
        /\ zr[at].amount = 0
    BY <1>2, <1>3 DEF Records
  <1> HIDE DEF zr
  <1>5. /\ dr \in Records
        /\ \A i \in 1..MaxBalances \ {at} : dr[i] = r[i]
        /\ dr[at].amount = 0
    <2>1. r[n].header \in Header /\ zr[at] \in [header: Header, amount: Amounts]
      BY <1>2, <1>3, <1>4 DEF Records
    <2>2. dr = [zr EXCEPT ![at] = [zr[at] EXCEPT !.header = r[n].header]]
      BY <1>2, <1>4 DEF Records
    <2>3. /\ [zr[at] EXCEPT !.header = r[n].header] \in [header: Header, amount: Amounts]
          /\ [zr[at] EXCEPT !.header = r[n].header].amount = zr[at].amount
      BY <2>1
    <2>4. QED
      BY <1>2, <1>4, <2>2, <2>3 DEF Records
  <1> HIDE DEF dr
  <1>6. /\ cr \in Records
        /\ \A i \in 1..MaxBalances \ {at} : cr[i] = r[i]
        /\ cr[at] = dr[n]
        /\ cr[at].amount \in {0, r[n].amount}
    BY <1>2, <1>5 DEF MoveTo, Records
  <1>7. /\ nr \in Records
        /\ nr = [[r EXCEPT ![at] = r[n]] EXCEPT ![n] = ZeroRecord]
        /\ \A i \in 1..MaxBalances \ {at, n} : nr[i] = r[i]
        /\ \A i \in {at, n} : nr[i].amount \in {0, r[n].amount}
    <2>1. ZeroRecord \in [header: Header, amount: Amounts] /\ ZeroRecord.amount = 0
      <3>1. NoHeader \in Header
        BY DEF NoHeader, Header, AssetTypes
      <3>2. QED
        BY <1>3, <3>1 DEF ZeroRecord
    <2> HIDE DEF cr
    <2>2. /\ nr \in Records
          /\ \A i \in 1..MaxBalances : nr[i] = IF i = n THEN ZeroRecord ELSE cr[i]
      BY <1>2, <1>6, <2>1 DEF Records
    <2> DEFINE mr == [r EXCEPT ![at] = r[n]]
    <2>3. /\ mr \in Records
          /\ \A i \in 1..MaxBalances : mr[i] = IF i = at THEN r[n] ELSE r[i]
      BY <1>2, <1>3 DEF Records
    <2> HIDE DEF mr, nr
    <2>4. /\ [mr EXCEPT ![n] = ZeroRecord] \in Records
          /\ \A i \in 1..MaxBalances :
               [mr EXCEPT ![n] = ZeroRecord][i] = IF i = n THEN ZeroRecord ELSE mr[i]
      BY <1>2, <2>1, <2>3 DEF Records
    <2>5. \A i \in 1..MaxBalances : nr[i] = [mr EXCEPT ![n] = ZeroRecord][i]
      <3>1. ASSUME NEW i \in 1..MaxBalances, i # n
            PROVE  cr[i] = mr[i]
        BY <1>2, <1>5, <1>6, <2>3, <3>1
      <3>2. QED
        BY <2>2, <2>4, <3>1
    <2>6. nr = [mr EXCEPT ![n] = ZeroRecord]
      BY <2>2, <2>4, <2>5 DEF Records
    <2>7. \A i \in {at, n} : nr[i].amount \in {0, r[n].amount}
      BY <1>2, <1>6, <2>1, <2>2
    <2>8. QED
      BY <1>6, <2>2, <2>6, <2>7 DEF mr
  <1> HIDE DEF cr, nr
  <1>8. /\ DOMAIN m2 = Entries(s)
        /\ \A j \in Entries(s) :
             /\ m2[j].type = m[j].type
             /\ m2[j].at = IF j = last THEN at ELSE At(s, j)
        /\ Erase(m2, k) = Repoint(m, k, last)
    BY <1>2, RepointedMap DEF at
  <1>9. Is(s, m, r, o, v, w, c)
    BY WholeMembers DEF r
  <1> HIDE DEF m, o, v, w, c, m2, last
  <1>10. Is(zeroed, m, zr, o, v, w, c)
    BY MembersOf DEF OverwriteWithdrawable, m, r, o, v, w, c, zr, at
  <1>11. Stage(s, k, 0, zeroed)
    BY <1>3, OverwriteWithdrawableKeeps, WholeStage
  <1> HIDE DEF zeroed
  <1>12. Is(described, m, dr, o, v, w, c)
    <2>1. described = [zeroed EXCEPT !.balances = dr]
      BY <1>2, <1>10 DEF Is, dr, at
    <2> HIDE DEF described
    <2>2. QED
      BY <1>10, <2>1, Written
  <1> HIDE DEF described
  <1>13. Is(copied, m, cr, o, v, w, c)
    <2>1. copied = [described EXCEPT !.balances = cr]
      BY <1>2, <1>12 DEF Is, cr, at
    <2> HIDE DEF copied
    <2>2. QED
      BY <1>12, <2>1, Written
  <1> HIDE DEF copied
  <1>14. Is(nullified, m, nr, o, v, w, c)
    <2>1. nullified = [copied EXCEPT !.balances = nr]
      BY <1>2, <1>13 DEF Is, nr
    <2> HIDE DEF nullified
    <2>2. QED
      BY <1>13, <2>1, Written
  <1> HIDE DEF nullified
  <1>15. Is(repoint, m2, nr, o, v, w, c)
    <2>1. repoint = [nullified EXCEPT !.account_asset_balance = m2]
      BY <1>14 DEF Is, m2, at
    <2> HIDE DEF repoint
    <2>2. QED
      BY <1>14, <2>1, Written
  <1> HIDE DEF repoint
  <1>16. Is(listed, m2, nr, o2, v, w, c)
    <2>1. listed = [repoint EXCEPT !.last_balances = o2]
      BY <1>15 DEF Is
    <2> HIDE DEF listed, o2
    <2>2. QED
      BY <1>15, <2>1, Written
  <1> HIDE DEF listed
  <1>17. Is(counted, m2, nr, o2, v, w, t.n_balances)
    <2>1. counted = [listed EXCEPT !.n_balances = t.n_balances]
      BY <1>16 DEF Is, DropWithdrawable, Table, c
    <2> HIDE DEF counted, t, o2
    <2>2. QED
      BY <1>16, <2>1, Written
  <1> HIDE DEF counted
  <1>18. Is(unlisted, m2, nr, t.last_balances, v, w, t.n_balances)
    <2>1. unlisted = [counted EXCEPT !.last_balances = t.last_balances]
      BY <1>17 DEF Is, DropWithdrawable, Table, SwapOut, o, last
    <2> HIDE DEF unlisted, t
    <2>2. QED
      BY <1>17, <2>1, Written
  <1> HIDE DEF unlisted
  <1>19. erased = t
    <2>1. erased = [unlisted EXCEPT !.account_asset_balance = Erase(m2, k)]
      BY <1>18 DEF Is
    <2>2. Is(erased, Erase(m2, k), nr, t.last_balances, v, w, t.n_balances)
      <3> HIDE DEF erased, t
      <3>1. QED
        BY <1>18, <2>1, Written
    <2>3. t = Table(Erase(m2, k), nr, t.last_balances, v, w, t.n_balances)
      BY <1>2, <1>7, <1>8 DEF DropWithdrawable, MoveTo, Table, m, r, o, v, w, last, at
    <2>4. QED
      BY <2>2, <2>3 DEF Is
  <1> HIDE DEF erased
  <1>20. Stage(s, k, 0, t)
    BY <1>3, DropWithdrawableKeeps, WholeStage
  <1>21. ASSUME NEW x, x.account_asset_balance = m
         PROVE  Repointing(s, k, x)
    BY <1>21 DEF Repointing, Entries, IsVirtual, At, m
  <1>22. ASSUME NEW x, x.account_asset_balance = m2
         PROVE  Repointing(s, k, x)
    BY <1>2, <1>8, <1>22 DEF Repointing, Entries, IsVirtual, At, at, m
  <1>23. ASSUME NEW x, NEW xr, x.balances = xr, x.virtual_balances = v,
                Repointing(s, k, x), xr \in Records,
                \A i \in 1..MaxBalances \ {at, n} : xr[i] = r[i],
                \A i \in {at, n} : xr[i].amount \in {0, r[n].amount}
         PROVE  Stage(s, k, 0, x)
    BY <1>23, RecordCells DEF n, at, v, r, o
  <1>24. Stage(s, k, 0, described)
    BY <1>2, <1>5, <1>12, <1>21, <1>23 DEF Is
  <1>25. Stage(s, k, 0, copied)
    BY <1>2, <1>6, <1>13, <1>21, <1>23 DEF Is
  <1>26. Stage(s, k, 0, nullified)
    BY <1>7, <1>14, <1>21, <1>23 DEF Is
  <1>27. Stage(s, k, 0, repoint)
    BY <1>7, <1>15, <1>22, <1>23 DEF Is
  <1>28. /\ Stage(s, k, 0, listed)
         /\ Stage(s, k, 0, counted)
         /\ Stage(s, k, 0, unlisted)
    BY <1>15, <1>16, <1>17, <1>18, <1>27, SameCells DEF Is
  <1>29. SetBalance(s, k, k \in Withdrawable, HeaderFor(k), 0) = t
    BY DEF SetBalance
  <1> HIDE DEF t
  <1>30. /\ Len(list) = 9 /\ DOMAIN list = 1..9 /\ Last(list) = t
         /\ list[1] = zeroed /\ list[2] = described /\ list[3] = copied
         /\ list[4] = nullified /\ list[5] = repoint /\ list[6] = listed
         /\ list[7] = counted /\ list[8] = unlisted /\ list[9] = t
    BY <1>19 DEF Last
  <1> HIDE DEF list
  <1>31. \A i \in 1..9 : i \in {1, 2, 3, 4, 5, 6, 7, 8, 9}
    OBVIOUS
  <1>32. \A i \in 1..9 : Stage(s, k, 0, list[i])
    BY <1>11, <1>20, <1>24, <1>25, <1>26, <1>27, <1>28, <1>30, <1>31
  <1>33. QED
    BY <1>1, <1>29, <1>30, <1>32 DEF Staged

\* set_account_asset_balance, write by write, on a table with room for k.
LEMMA SetWritesStaged ==
  ASSUME NEW s, Whole(s), NEW k \in Key, ~NoRoom(s, k), NEW amount \in Amounts
  PROVE  /\ Staged(s, k, amount, SetWrites(s, k, amount))
         /\ SetsBalance(s, Last(SetWrites(s, k, amount)), k, k \in Withdrawable,
                        HeaderFor(k), amount)
  <1>1. Staged(s, k, amount, SetWrites(s, k, amount))
    <2>1. CASE k \notin Entries(s) /\ k \in Withdrawable
      <3>1. SetWrites(s, k, amount) = NewWithdrawableWrites(s, k, HeaderFor(k), amount)
        BY <2>1 DEF SetWrites
      <3>2. QED
        BY <2>1, <3>1, NewWithdrawableStaged DEF NoRoom
    <2>2. CASE k \notin Entries(s) /\ k \notin Withdrawable
      <3>1. SetWrites(s, k, amount) = NewVirtualWrites(s, k, amount)
        BY <2>2 DEF SetWrites
      <3>2. QED
        BY <2>2, <3>1, NewVirtualStaged DEF NoRoom
    <2>3. CASE k \in Entries(s) /\ amount # 0
      <3>1. SetWrites(s, k, amount) = <<SetBalance(s, k, FALSE, NoHeader, amount)>>
        BY <2>3 DEF SetWrites
      <3>2. QED
        BY <2>3, <3>1, OverwriteStaged
    <2>4. CASE k \in Entries(s) /\ amount = 0 /\ IsVirtual(s, k)
      <3>1. SetWrites(s, k, amount) = DropVirtualWrites(s, k)
        BY <2>4 DEF SetWrites
      <3>2. QED
        BY <2>4, <3>1, DropVirtualStaged
    <2>5. CASE k \in Entries(s) /\ amount = 0 /\ ~IsVirtual(s, k)
      <3>1. SetWrites(s, k, amount) = DropWithdrawableWrites(s, k)
        BY <2>5 DEF SetWrites
      <3>2. QED
        BY <2>5, <3>1, DropWithdrawableStaged
    <2>6. QED
      BY <2>1, <2>2, <2>3, <2>4, <2>5
  <1>2. SetsBalance(s, SetBalance(s, k, k \in Withdrawable, HeaderFor(k), amount), k,
                    k \in Withdrawable, HeaderFor(k), amount)
    <2>1. /\ k \in Entries(s) \/ ~Full(s)
          /\ (k \in Withdrawable) \in BOOLEAN
          /\ k \in Withdrawable => Describes(HeaderFor(k))
      BY HeaderDescribes DEF NoRoom
    <2>2. QED
      BY <2>1, SetBalanceWhole
  <1>3. Last(SetWrites(s, k, amount)) =
          SetBalance(s, k, k \in Withdrawable, HeaderFor(k), amount)
    BY <1>1 DEF Staged
  <1>4. QED
    BY <1>1, <1>2, <1>3

-----------------------------------------------------------------------------
(* What is held of an asset at each write of a set. *)

LEMMA AccountsFinite == IsFiniteSet(AccountIds) /\ Key = AssetIds \X AccountIds
  <1>1. MaxAccounts \in Nat
    BY TypesAssumption
  <1>2. ASSUME NEW n \in Nat PROVE IsFiniteSet(0..(n - 1))
    BY FS_Interval
  <1>3. QED
    BY <1>1, <1>2 DEF AccountIds, Key

Reads(s, a) == [u \in AccountIds |-> ReadOf(s, <<a, u>>)]

LEMMA HeldIsSum ==
  ASSUME NEW s, NEW a
  PROVE  Held(s, a) = SumFunctionOnSet(Reads(s, a), AccountIds)
  BY DEF Held, Reads, SumFunction

LEMMA WholeHeld ==
  ASSUME NEW s, Whole(s), NEW a \in AssetIds
  PROVE  /\ \A u \in AccountIds : /\ Reads(s, a)[u] = BalanceOf(s, <<a, u>>)
                                  /\ Reads(s, a)[u] \in Nat
         /\ Held(s, a) \in Nat
  <1>1. \A u \in AccountIds : <<a, u>> \in Key
    BY AccountsFinite
  <1>2. \A u \in AccountIds : /\ Reads(s, a)[u] = BalanceOf(s, <<a, u>>)
                              /\ Reads(s, a)[u] \in Amounts
    BY <1>1, WholeReads DEF Reads
  <1>3. \A u \in AccountIds : Reads(s, a)[u] \in Nat
    <2>1. Amounts \subseteq Nat
      BY TypesAssumption DEF Amounts
    <2>2. QED
      BY <1>2, <2>1
  <1>4. Held(s, a) \in Nat
    BY <1>3, AccountsFinite, SumNat, HeldIsSum
  <1>5. QED
    BY <1>2, <1>3, <1>4

\* After a set what is held of its asset has changed as its balance has.
LEMMA SetHeld ==
  ASSUME NEW s, Whole(s), NEW t, Whole(t), NEW a \in AssetIds, NEW u \in AccountIds,
         NEW amount \in Amounts, Assigned(s, t, <<a, u>>, amount)
  PROVE  /\ Held(t, a) = Held(s, a) - BalanceOf(s, <<a, u>>) + amount
         /\ \A b \in AssetIds : b # a => Held(t, b) = Held(s, b)
  <1>1. \A b \in AssetIds, x \in AccountIds :
          /\ <<b, x>> \in Key
          /\ BalanceOf(t, <<b, x>>) = IF b = a /\ x = u THEN amount
                                      ELSE BalanceOf(s, <<b, x>>)
    <2>1. \A b \in AssetIds, x \in AccountIds : <<b, x>> \in Key
      BY AccountsFinite
    <2>2. \A b, x : <<b, x>> = <<a, u>> <=> b = a /\ x = u
      OBVIOUS
    <2>3. QED
      BY <2>1, <2>2 DEF Assigned
  <1>2. \A b \in AssetIds, x \in AccountIds :
          /\ Reads(s, b)[x] = BalanceOf(s, <<b, x>>) /\ Reads(s, b)[x] \in Nat
          /\ Reads(t, b)[x] = BalanceOf(t, <<b, x>>) /\ Reads(t, b)[x] \in Nat
    BY WholeHeld
  <1>3. Held(t, a) = Held(s, a) - BalanceOf(s, <<a, u>>) + amount
    <2>1. /\ \A x \in AccountIds : Reads(s, a)[x] \in Int /\ Reads(t, a)[x] \in Int
          /\ \A x \in AccountIds \ {u} : Reads(s, a)[x] = Reads(t, a)[x]
          /\ Reads(s, a)[u] = BalanceOf(s, <<a, u>>) /\ Reads(t, a)[u] = amount
      <3>1. \A x \in AccountIds : Reads(s, a)[x] \in Nat /\ Reads(t, a)[x] \in Nat
        BY <1>2
      <3>2. \A x \in AccountIds : Reads(t, a)[x] = IF x = u THEN amount ELSE Reads(s, a)[x]
        BY <1>1, <1>2
      <3>3. Reads(s, a)[u] = BalanceOf(s, <<a, u>>)
        BY <1>2
      <3>4. QED
        BY <3>1, <3>2, <3>3
    <2>2. SumFunctionOnSet(Reads(t, a), AccountIds) =
            SumFunctionOnSet(Reads(s, a), AccountIds) - Reads(s, a)[u] + Reads(t, a)[u]
      BY <2>1, AccountsFinite, SumChange
    <2>3. QED
      BY <2>1, <2>2, HeldIsSum
  <1>4. ASSUME NEW b \in AssetIds, b # a
        PROVE  Held(t, b) = Held(s, b)
    <2>1. \A x \in AccountIds : Reads(t, b)[x] = Reads(s, b)[x]
      BY <1>1, <1>2, <1>4
    <2>2. QED
      BY <2>1, AccountsFinite, SumSame, HeldIsSum
  <1>5. QED
    BY <1>3, <1>4

\* On the way no more is held than at one of its ends, unless an entry that goes
\* reads as the one that takes its place.
LEMMA StageHeld ==
  ASSUME NEW s, Whole(s), NEW t, Whole(t), NEW a \in AssetIds, NEW u \in AccountIds,
         NEW amount \in Amounts, Assigned(s, t, <<a, u>>, amount),
         NEW x, Stage(s, <<a, u>>, amount, x)
  PROVE  /\ \A b \in AssetIds : b # a => Held(x, b) <= Held(s, b)
         /\ ~Drops(s, <<a, u>>, amount) => Held(x, a) <= Held(s, a) \/ Held(x, a) <= Held(t, a)
  <1> DEFINE k == <<a, u>>
  <1>1. \A b \in AssetIds, y \in AccountIds :
          /\ <<b, y>> \in Key
          /\ Reads(s, b)[y] = BalanceOf(s, <<b, y>>) /\ Reads(s, b)[y] \in Nat
          /\ Reads(t, b)[y] = BalanceOf(t, <<b, y>>) /\ Reads(t, b)[y] \in Nat
          /\ Reads(x, b)[y] = ReadOf(x, <<b, y>>)
          /\ <<b, y>> = k <=> b = a /\ y = u
    BY WholeHeld, AccountsFinite DEF Reads
  <1>2. ASSUME NEW b \in AssetIds, b # a
        PROVE  Held(x, b) <= Held(s, b)
    <2>1. ASSUME NEW y \in AccountIds
          PROVE  Reads(x, b)[y] \in Nat /\ Reads(x, b)[y] <= Reads(s, b)[y]
      <3>1. <<b, y>> \in Key \ {k}
        BY <1>1, <1>2
      <3>2. ReadOf(x, <<b, y>>) = BalanceOf(s, <<b, y>>) \/ ReadOf(x, <<b, y>>) = 0
        BY <3>1 DEF Stage
      <3> DEFINE p == Reads(x, b)[y]
                 q == Reads(s, b)[y]
      <3>3. q \in Nat /\ (p = q \/ p = 0)
        BY <1>1, <3>2
      <3> HIDE DEF p, q
      <3>4. p \in Nat /\ p <= q
        BY <3>3
      <3>5. QED
        BY <3>4 DEF p, q
    <2>2. QED
      BY <1>1, <2>1, AccountsFinite, SumMonotone, HeldIsSum
  <1>3. ASSUME ~Drops(s, k, amount)
        PROVE  Held(x, a) <= Held(s, a) \/ Held(x, a) <= Held(t, a)
    <2>1. \A y \in AccountIds : y # u => Reads(x, a)[y] = Reads(s, a)[y]
      <3>1. \A y \in AccountIds : y # u => <<a, y>> \in Key \ {k}
        BY <1>1
      <3>2. QED
        BY <1>1, <1>3, <3>1 DEF Stage
    <2>2. \A y \in AccountIds : y # u => Reads(t, a)[y] = Reads(s, a)[y]
      BY <1>1 DEF Assigned
    <2>3. Reads(x, a)[u] = Reads(s, a)[u] \/ Reads(x, a)[u] = Reads(t, a)[u]
      BY <1>1, <1>3 DEF Stage, Assigned
    <2>4. CASE Reads(x, a)[u] = Reads(s, a)[u]
      <3>1. \A y \in AccountIds : Reads(x, a)[y] = Reads(s, a)[y]
        BY <2>1, <2>4
      <3>2. Held(x, a) = Held(s, a)
        BY <3>1, AccountsFinite, SumSame, HeldIsSum
      <3>3. QED
        BY <3>2, WholeHeld
    <2>5. CASE Reads(x, a)[u] = Reads(t, a)[u]
      <3>1. \A y \in AccountIds : Reads(x, a)[y] = Reads(t, a)[y]
        BY <2>1, <2>2, <2>5
      <3>2. Held(x, a) = Held(t, a)
        BY <3>1, AccountsFinite, SumSame, HeldIsSum
      <3>3. QED
        BY <3>2, WholeHeld
    <2>6. QED
      BY <2>3, <2>4, <2>5
  <1>4. QED
    BY <1>2, <1>3

-----------------------------------------------------------------------------
(***************************************************************************)
(* The invariant of the calls: what is written and what is still to be     *)
(* written are good points, and the last write of a call leaves a ledger   *)
(* at rest.                                                                *)
(***************************************************************************)

\* OldOrNew and SupplyCoversStopped of a table x on the way from one to another.
OldOrNewAt(x, from, to) ==
  \A k \in Key :
    /\ k \in Entries(x) => InArray(x, k) \/ k \in Entries(from) \ Entries(to)
    /\ \/ ReadOf(x, k) \in {BalanceOf(from, k), BalanceOf(to, k)}
       \/ /\ k \in Entries(from) \ Entries(to)
          /\ ReadOf(x, k) = BalanceOf(from, MovedIn(from, k))
       \/ /\ ReadOf(x, k) = 0
          /\ \E dropped \in Entries(from) \ Entries(to) :
               k = MovedIn(from, dropped) /\ ~IsVirtual(from, k)

CoveredAt(x, supplies, kind, asset, from, to) ==
  \A a \in AssetIds :
    Held(x, a) > supplies[a] =>
      \/ kind = "deposit" /\ asset = a
      \/ \E k \in Entries(from) \ Entries(to) : k[1] = a

Point(p, kind, asset) ==
  /\ p.table.balances \in Records
  /\ OldOrNewAt(p.table, p.from, p.to)
  /\ CoveredAt(p.table, p.supply, kind, asset, p.from, p.to)

\* Between calls.
AtRest(x, supplies) ==
  /\ Whole(x)
  /\ supplies \in [AssetIds -> Nat]
  /\ \A a \in AssetIds : Held(x, a) <= supplies[a]

IsList(list) == Len(list) \in Nat /\ list = [i \in 1..Len(list) |-> list[i]]

Points(list, kind, asset) ==
  IsList(list) /\ \A i \in 1..Len(list) : Point(list[i], kind, asset)

LEMMA RestIsPoint ==
  ASSUME NEW p, p.from = p.table, p.to = p.table, AtRest(p.table, p.supply),
         NEW kind, NEW asset
  PROVE  Point(p, kind, asset)
  <1>1. OldOrNewAt(p.table, p.from, p.to) /\ p.table.balances \in Records
    BY WholeReads DEF OldOrNewAt, AtRest
  <1>2. ASSUME NEW a \in AssetIds
        PROVE  ~(Held(p.table, a) > p.supply[a])
    <2>1. /\ Held(p.table, a) \in Nat /\ p.supply[a] \in Nat
          /\ Held(p.table, a) <= p.supply[a]
      BY WholeHeld DEF AtRest
    <2>2. QED
      BY <2>1
  <1>3. QED
    BY <1>1, <1>2 DEF Point, CoveredAt

\* What a set leaves, and what is held then.
LEMMA SetLeaves ==
  ASSUME NEW s, Whole(s), NEW a \in AssetIds, NEW u \in AccountIds, ~NoRoom(s, <<a, u>>),
         NEW amount \in Amounts, NEW t, t = Last(SetWrites(s, <<a, u>>, amount))
  PROVE  /\ Whole(t) /\ Assigned(s, t, <<a, u>>, amount)
         /\ FreeRecordsZero(s) => FreeRecordsZero(t)
         /\ Held(s, a) \in Nat /\ Held(t, a) \in Nat
         /\ BalanceOf(s, <<a, u>>) \in Nat /\ amount \in Nat
         /\ Held(t, a) = Held(s, a) - BalanceOf(s, <<a, u>>) + amount
         /\ \A b \in AssetIds : b # a => Held(t, b) = Held(s, b)
  <1> DEFINE k == <<a, u>>
  <1>1. k \in Key
    BY AccountsFinite
  <1>2. SetsBalance(s, t, k, k \in Withdrawable, HeaderFor(k), amount)
    BY <1>1, SetWritesStaged
  <1>3. Whole(t) /\ Assigned(s, t, k, amount) /\ (FreeRecordsZero(s) => FreeRecordsZero(t))
    BY <1>2 DEF SetsBalance
  <1>4. BalanceOf(s, k) \in Nat /\ amount \in Nat
    <2>1. Amounts \subseteq Nat
      BY TypesAssumption DEF Amounts
    <2>2. QED
      BY <1>1, <2>1, WholeReads
  <1>5. Held(s, a) \in Nat /\ Held(t, a) \in Nat
    BY <1>3, WholeHeld
  <1>6. /\ Held(t, a) = Held(s, a) - BalanceOf(s, <<a, u>>) + amount
        /\ \A b \in AssetIds : b # a => Held(t, b) = Held(s, b)
    BY <1>3, SetHeld DEF k
  <1>7. QED
    BY <1>3, <1>4, <1>5, <1>6 DEF k

\* The writes of a set, as points of the call it is in.
LEMMA SetPoints ==
  ASSUME NEW s, NEW supplies, AtRest(s, supplies),
         NEW a \in AssetIds, NEW u \in AccountIds, ~NoRoom(s, <<a, u>>),
         NEW amount \in Amounts, NEW kind, NEW asset,
         NEW list, list = SetWrites(s, <<a, u>>, amount),
         NEW t, t = Last(list),
         NEW w, w = Writes(list, s, supplies),
         (kind = "deposit" /\ asset = a) \/ Held(t, a) <= supplies[a]
  PROVE  /\ Points(w, kind, asset)
         /\ Len(w) \in Nat \ {0}
         /\ w[Len(w)].table = t
         /\ \A i \in 1..Len(w) : w[i].supply = supplies
  <1> DEFINE k == <<a, u>>
  <1>1. k \in Key /\ k[1] = a /\ Whole(s)
    BY AccountsFinite DEF AtRest
  <1>2. Staged(s, k, amount, list) /\ SetsBalance(s, t, k, k \in Withdrawable, HeaderFor(k), amount)
    BY <1>1, SetWritesStaged
  <1>3. /\ Whole(t) /\ Assigned(s, t, k, amount)
        /\ FreeRecordsZero(s) => FreeRecordsZero(t)
        /\ Drops(s, k, amount) => Entries(s) \ Entries(t) = {k}
    BY <1>2 DEF SetsBalance, Drops
  <1>4. /\ Held(t, a) = Held(s, a) - BalanceOf(s, <<a, u>>) + amount
        /\ \A b \in AssetIds : b # a => Held(t, b) = Held(s, b)
    BY <1>1, <1>3, SetHeld
  <1>5. \A j \in Key : BalanceOf(t, j) = IF j = k THEN amount ELSE BalanceOf(s, j)
    BY <1>3 DEF Assigned
  <1> HIDE DEF k
  <1>6. ASSUME NEW x, Stage(s, k, amount, x)
        PROVE  OldOrNewAt(x, s, t)
    <2>1. ASSUME NEW j \in Key
          PROVE  j \in Entries(x) => InArray(x, j) \/ j \in Entries(s) \ Entries(t)
      BY <1>3, <1>6 DEF Stage
    <2>2. ASSUME NEW j \in Key, j # k
          PROVE  \/ ReadOf(x, j) \in {BalanceOf(s, j), BalanceOf(t, j)}
                 \/ /\ ReadOf(x, j) = 0
                    /\ \E dropped \in Entries(s) \ Entries(t) :
                         j = MovedIn(s, dropped) /\ ~IsVirtual(s, j)
      BY <1>3, <1>6, <2>2 DEF Stage
    <2>3. \/ ReadOf(x, k) \in {BalanceOf(s, k), BalanceOf(t, k)}
          \/ k \in Entries(s) \ Entries(t) /\ ReadOf(x, k) = BalanceOf(s, MovedIn(s, k))
      BY <1>1, <1>3, <1>5, <1>6 DEF Stage
    <2>4. QED
      BY <2>1, <2>2, <2>3 DEF OldOrNewAt
  <1>7. ASSUME NEW x, Stage(s, k, amount, x)
        PROVE  CoveredAt(x, supplies, kind, asset, s, t)
    <2>1. ASSUME NEW b \in AssetIds, b # a
          PROVE  ~(Held(x, b) > supplies[b])
      <3>1. Held(x, b) <= Held(s, b)
        BY <1>1, <1>3, <1>7, <2>1, StageHeld DEF k
      <3>2. Held(s, b) <= supplies[b] /\ Held(s, b) \in Nat /\ supplies[b] \in Nat
        BY <1>1, WholeHeld DEF AtRest
      <3>3. Held(x, b) \in Int
        <4>1. ASSUME NEW y \in AccountIds
              PROVE  Reads(x, b)[y] \in Nat
          <5>1. <<b, y>> \in Key \ {k}
            BY <2>1, AccountsFinite DEF k
          <5>2. ReadOf(x, <<b, y>>) \in {BalanceOf(s, <<b, y>>), 0}
            BY <1>7, <5>1 DEF Stage
          <5>3. Reads(s, b)[y] = BalanceOf(s, <<b, y>>) /\ Reads(s, b)[y] \in Nat
            BY <1>1, WholeHeld
          <5>4. QED
            BY <5>2, <5>3 DEF Reads
        <4>2. QED
          BY <4>1, AccountsFinite, SumNat, HeldIsSum
      <3>4. QED
        BY <3>1, <3>2, <3>3
    <2>2. CASE kind = "deposit" /\ asset = a
      BY <2>1, <2>2 DEF CoveredAt
    <2>3. CASE Drops(s, k, amount)
      BY <1>1, <1>3, <2>1, <2>3 DEF CoveredAt
    <2>4. CASE ~Drops(s, k, amount) /\ Held(t, a) <= supplies[a]
      <3>1. Held(x, a) <= Held(s, a) \/ Held(x, a) <= Held(t, a)
        BY <1>1, <1>3, <1>7, <2>4, StageHeld DEF k
      <3>2. /\ Held(s, a) <= supplies[a] /\ Held(s, a) \in Nat /\ supplies[a] \in Nat
            /\ Held(t, a) \in Nat
        BY <1>1, <1>3, WholeHeld DEF AtRest
      <3>3. Held(x, a) \in Int
        <4>1. ASSUME NEW y \in AccountIds
              PROVE  Reads(x, a)[y] \in Nat
          <5>1. <<a, y>> \in Key
            BY AccountsFinite
          <5>2. ReadOf(x, <<a, y>>) \in {BalanceOf(s, <<a, y>>), amount, 0}
            BY <1>7, <2>4, <5>1 DEF Stage
          <5>3. Reads(s, a)[y] = BalanceOf(s, <<a, y>>) /\ Reads(s, a)[y] \in Nat
            BY <1>1, WholeHeld
          <5>4. amount \in Nat
            BY TypesAssumption DEF Amounts
          <5>5. QED
            BY <5>2, <5>3, <5>4 DEF Reads
        <4>2. QED
          BY <4>1, AccountsFinite, SumNat, HeldIsSum
      <3>4. ~(Held(x, a) > supplies[a])
        BY <2>4, <3>1, <3>2, <3>3
      <3>5. QED
        BY <2>1, <3>4 DEF CoveredAt
    <2>5. QED
      BY <2>2, <2>3, <2>4
  <1>8. /\ DOMAIN list = 1..Len(list) /\ Len(list) \in Nat \ {0}
        /\ \A i \in 1..Len(list) : Stage(s, k, amount, list[i])
        /\ t = list[Len(list)]
    BY <1>2 DEF Staged, Last
  <1>9. w = [i \in 1..Len(list) |->
               [table |-> list[i], supply |-> supplies, from |-> s, to |-> t]]
    BY <1>8 DEF Writes
  <1>10. Len(w) = Len(list)
    BY <1>8, <1>9
  <1>11. ASSUME NEW i \in 1..Len(w)
         PROVE  Point(w[i], kind, asset)
    <2>1. /\ w[i].table = list[i] /\ w[i].supply = supplies
          /\ w[i].from = s /\ w[i].to = t
      BY <1>9, <1>10
    <2>2. Stage(s, k, amount, list[i])
      BY <1>8, <1>10
    <2>3. list[i].balances \in Records
      BY <2>2 DEF Stage
    <2>4. OldOrNewAt(list[i], s, t) /\ CoveredAt(list[i], supplies, kind, asset, s, t)
      BY <1>6, <1>7, <2>2
    <2>5. QED
      BY <2>1, <2>3, <2>4 DEF Point
  <1>12. IsList(w)
    BY <1>8, <1>9, <1>10 DEF IsList
  <1>13. w[Len(w)].table = t /\ \A i \in 1..Len(w) : w[i].supply = supplies
    BY <1>8, <1>9, <1>10
  <1>14. Points(w, kind, asset) /\ Len(w) \in Nat \ {0}
    BY <1>8, <1>10, <1>11, <1>12 DEF Points
  <1>15. QED
    BY <1>13, <1>14

LEMMA EmptyList == Len(<<>>) = 0 /\ IsList(<<>>)
  BY DEF IsList

LEMMA ListEmpty ==
  ASSUME NEW list, IsList(list)
  PROVE  list = <<>> <=> Len(list) = 0
  BY DEF IsList

LEMMA Joined ==
  ASSUME NEW list, NEW more, IsList(list), IsList(more)
  PROVE  /\ IsList(list \o more)
         /\ Len(list \o more) = Len(list) + Len(more)
         /\ \A i \in 1..Len(list) : (list \o more)[i] = list[i]
         /\ \A i \in 1..Len(more) : (list \o more)[Len(list) + i] = more[i]
  <1> DEFINE S == {list[i] : i \in 1..Len(list)} \cup {more[i] : i \in 1..Len(more)}
  <1>1. list \in Seq(S) /\ more \in Seq(S)
    <2>1. \A i \in 1..Len(list) : list[i] \in S
      OBVIOUS
    <2>2. \A i \in 1..Len(more) : more[i] \in S
      OBVIOUS
    <2> HIDE DEF S
    <2>3. [i \in 1..Len(list) |-> list[i]] \in Seq(S) /\ [i \in 1..Len(more) |-> more[i]] \in Seq(S)
      BY <2>1, <2>2, IsASeq DEF IsList
    <2>4. QED
      BY <2>3 DEF IsList
  <1> HIDE DEF S
  <1>2. /\ list \o more \in Seq(S)
        /\ Len(list \o more) = Len(list) + Len(more)
        /\ \A i \in 1..(Len(list) + Len(more)) : (list \o more)[i] =
             IF i <= Len(list) THEN list[i] ELSE more[i - Len(list)]
    BY <1>1, ConcatProperties
  <1>3. list \o more = [i \in 1..Len(list \o more) |-> (list \o more)[i]]
    BY <1>2, LenProperties
  <1>4. Len(list) \in Nat /\ Len(more) \in Nat
    BY DEF IsList
  <1>5. ASSUME NEW i \in 1..Len(list)
        PROVE  (list \o more)[i] = list[i]
    BY <1>2, <1>4
  <1>6. ASSUME NEW i \in 1..Len(more)
        PROVE  (list \o more)[Len(list) + i] = more[i]
    <2> DEFINE l == Len(list)
               m == Len(more)
    <2>1. l + i \in 1..(l + m) /\ ~(l + i <= l) /\ (l + i) - l = i
      BY <1>4
    <2>2. QED
      BY <1>2, <2>1
  <1>7. QED
    BY <1>2, <1>3, <1>4, <1>5, <1>6 DEF IsList

LEMMA JoinedPoints ==
  ASSUME NEW list, NEW more, NEW kind, NEW asset,
         Points(list, kind, asset), Points(more, kind, asset)
  PROVE  Points(list \o more, kind, asset)
  <1>1. /\ IsList(list \o more) /\ Len(list \o more) = Len(list) + Len(more)
        /\ \A i \in 1..Len(list) : (list \o more)[i] = list[i]
        /\ \A i \in 1..Len(more) : (list \o more)[Len(list) + i] = more[i]
        /\ Len(list) \in Nat /\ Len(more) \in Nat
    BY Joined DEF Points, IsList
  <1>2. ASSUME NEW i \in 1..(Len(list) + Len(more))
        PROVE  Point((list \o more)[i], kind, asset)
    <2>1. CASE i <= Len(list)
      <3>1. i \in 1..Len(list)
        BY <1>1, <2>1
      <3>2. QED
        BY <1>1, <3>1 DEF Points
    <2>2. CASE ~(i <= Len(list))
      <3> DEFINE l == Len(list)
                 m == Len(more)
                 j == i - l
      <3>1. j \in 1..m /\ l + j = i
        BY <1>1, <2>2
      <3>2. (list \o more)[i] = more[j]
        BY <1>1, <3>1
      <3> HIDE DEF j
      <3>3. QED
        BY <3>1, <3>2 DEF Points
    <2>3. QED
      BY <2>1, <2>2
  <1>3. QED
    BY <1>1, <1>2 DEF Points

LEMMA TailOf ==
  ASSUME NEW list, IsList(list), Len(list) # 0
  PROVE  /\ Head(list) = list[1]
         /\ IsList(Tail(list))
         /\ Len(Tail(list)) = Len(list) - 1
         /\ \A i \in 1..(Len(list) - 1) : Tail(list)[i] = list[i + 1]
  <1> DEFINE S == {list[i] : i \in 1..Len(list)}
  <1>1. list \in Seq(S)
    <2>1. \A i \in 1..Len(list) : list[i] \in S
      OBVIOUS
    <2> HIDE DEF S
    <2>2. [i \in 1..Len(list) |-> list[i]] \in Seq(S)
      BY <2>1, IsASeq DEF IsList
    <2>3. QED
      BY <2>2 DEF IsList
  <1> HIDE DEF S
  <1>2. list # <<>>
    BY EmptyList
  <1>3. /\ Head(list) = list[1]
        /\ Tail(list) \in Seq(S)
        /\ Len(Tail(list)) = Len(list) - 1
        /\ \A i \in 1..(Len(list) - 1) : Tail(list)[i] = list[i + 1]
    BY <1>1, <1>2, HeadTailProperties, LenProperties
  <1>4. IsList(Tail(list))
    BY <1>3, LenProperties DEF IsList
  <1>5. QED
    BY <1>3, <1>4

-----------------------------------------------------------------------------
(* The calls. *)

CrashInv ==
  /\ call = [kind |-> call.kind, asset |-> call.asset, from |-> call.from, to |-> call.to]
  /\ supply \in [AssetIds -> Nat]
  /\ Point([table |-> table, supply |-> supply, from |-> call.from, to |-> call.to],
           call.kind, call.asset)
  /\ Points(writes, call.kind, call.asset)
  /\ stopped \in BOOLEAN
  /\ Idle => AtRest(table, supply) /\ (fresh => FreeRecordsZero(table))
  /\ writes # <<>> =>
       /\ ~stopped
       /\ AtRest(writes[Len(writes)].table, writes[Len(writes)].supply)
       /\ \A i \in 1..Len(writes) : writes[i].supply \in [AssetIds -> Nat]
       /\ fresh => FreeRecordsZero(writes[Len(writes)].table)

LEMMA EmptyHeld ==
  ASSUME NEW s, Whole(s), \A k \in Key : BalanceOf(s, k) = 0
  PROVE  AtRest(s, [a \in AssetIds |-> 0])
  <1>1. ASSUME NEW a \in AssetIds
        PROVE  Held(s, a) = 0
    <2>1. \A u \in AccountIds : Reads(s, a)[u] = 0
      BY WholeHeld, AccountsFinite
    <2>2. QED
      BY <2>1, AccountsFinite, SumZero, HeldIsSum
  <1>2. QED
    BY <1>1 DEF AtRest

LEMMA EmptyIsWhole ==
  /\ Whole(EmptyTable) /\ FreeRecordsZero(EmptyTable)
  /\ \A k \in Key : BalanceOf(EmptyTable, k) = 0
  BY EmptyTableWellFormed, WellFormedIsWhole

\* The maps and lists are new, the records are not.
LEMMA CreateIsWhole ==
  ASSUME NEW s, s.balances \in Records
  PROVE  Whole(CreateOver(s)) /\ \A k \in Key : BalanceOf(CreateOver(s), k) = 0
  <1> DEFINE t == CreateOver(s)
             e == EmptyTable
  <1>1. /\ t.account_asset_balance = e.account_asset_balance
        /\ t.balances = s.balances
        /\ t.last_balances = e.last_balances
        /\ t.virtual_balances = e.virtual_balances
        /\ t.last_virtual_balances = e.last_virtual_balances
        /\ t.n_balances = e.n_balances
        /\ t = Table(t.account_asset_balance, t.balances, t.last_balances,
                     t.virtual_balances, t.last_virtual_balances, t.n_balances)
    BY DEF CreateOver, EmptyTable, Table
  <1>2. Whole(e) /\ Entries(e) = {}
    BY EmptyIsWhole, EmptyTableWellFormed
  <1> HIDE DEF t, e
  <1>3. Entries(t) = {} /\ \A u : EntriesOf(t, u) = EntriesOf(e, u)
    BY <1>1, <1>2 DEF Entries, EntriesOf
  <1>4. TableType(t)
    BY <1>1, <1>2, <1>3 DEF Whole, TableType, Records, Entries
  <1>5. Packed(t) /\ WithinLimit(t) /\ CountsMatch(t)
    BY <1>1, <1>2, SameEntries DEF Whole
  <1>6. Whole(t) /\ \A k \in Key : BalanceOf(t, k) = 0
    BY <1>3, <1>4, <1>5 DEF Whole, BalanceOf
  <1>7. QED
    BY <1>6 DEF t

LEMMA CrashInitHolds == CrashInit => CrashInv
  <1> SUFFICES ASSUME CrashInit
               PROVE  CrashInv
    OBVIOUS
  <1>1. AtRest(table, supply) /\ FreeRecordsZero(table)
    BY EmptyIsWhole, EmptyHeld DEF CrashInit, Init
  <1>2. /\ call = [kind |-> call.kind, asset |-> call.asset, from |-> call.from, to |-> call.to]
        /\ call.from = table /\ call.to = table
    BY DEF CrashInit, NoCall
  <1>3. Point([table |-> table, supply |-> supply, from |-> call.from, to |-> call.to],
              call.kind, call.asset)
    BY <1>1, <1>2, RestIsPoint
  <1>4. Points(writes, call.kind, call.asset)
    BY EmptyList DEF CrashInit, Points
  <1>5. QED
    BY <1>1, <1>2, <1>3, <1>4 DEF CrashInit, CrashInv, AtRest

\* A call is started: every write of it is a good point, the last at rest.
LEMMA StartHolds ==
  ASSUME CrashInv, Idle, NEW kind, NEW a, NEW list, Start(kind, a, list),
         Points(list, kind, a), Len(list) # 0,
         \A i \in 1..Len(list) : list[i].supply \in [AssetIds -> Nat],
         AtRest(list[Len(list)].table, list[Len(list)].supply),
         FreeRecordsZero(table) => FreeRecordsZero(list[Len(list)].table)
  PROVE  CrashInv'
  <1>1. AtRest(table, supply) /\ (fresh => FreeRecordsZero(table)) /\ ~stopped
    BY DEF CrashInv, Idle
  <1>2. /\ writes' = list /\ table' = table /\ supply' = supply /\ fresh' = fresh
        /\ stopped' = stopped
        /\ call' = [kind |-> kind, asset |-> a, from |-> table, to |-> table]
    BY DEF Start
  <1>3. Point([table |-> table, supply |-> supply, from |-> table, to |-> table], kind, a)
    BY <1>1, RestIsPoint
  <1>4. list # <<>>
    BY EmptyList
  <1>5. call'.kind = kind /\ call'.asset = a /\ call'.from = table /\ call'.to = table
    BY <1>2
  <1>6. call' = [kind |-> call'.kind, asset |-> call'.asset, from |-> call'.from, to |-> call'.to]
    BY <1>2
  <1>7. Point([table |-> table', supply |-> supply', from |-> call'.from, to |-> call'.to],
              call'.kind, call'.asset)
    BY <1>2, <1>3, <1>5
  <1>8. QED
    BY <1>1, <1>2, <1>4, <1>5, <1>6, <1>7 DEF CrashInv, Idle, AtRest

\* The set of a balance and then of the supply (deposit and withdraw).
LEMMA ChangeHolds ==
  ASSUME CrashInv, Idle, NEW kind, NEW a \in AssetIds, NEW u \in AccountIds,
         NEW new \in Amounts, NEW new_supply \in Nat, ~NoRoom(table, <<a, u>>),
         new - BalanceOf(table, <<a, u>>) = new_supply - supply[a],
         kind = "deposit" \/ new_supply <= supply[a],
         Start(kind, a,
               BalanceThenSupply(SetWrites(table, <<a, u>>, new), a, new_supply))
  PROVE  CrashInv'
  <1> DEFINE tables == SetWrites(table, <<a, u>>, new)
             t == Last(tables)
             supplies == [supply EXCEPT ![a] = new_supply]
             sets == Writes(tables, table, supply)
             last == Writes(<<t>>, t, supplies)
             list == sets \o last
  <1>1. Start(kind, a, list)
    BY DEF BalanceThenSupply
  <1>2. /\ AtRest(table, supply) /\ Whole(table) /\ supply \in [AssetIds -> Nat]
        /\ supply[a] \in Nat /\ Held(table, a) <= supply[a]
    BY DEF CrashInv, AtRest
  <1>3. /\ Whole(t) /\ (FreeRecordsZero(table) => FreeRecordsZero(t))
        /\ Held(table, a) \in Nat /\ Held(t, a) \in Nat
        /\ BalanceOf(table, <<a, u>>) \in Nat /\ new \in Nat
        /\ Held(t, a) = Held(table, a) - BalanceOf(table, <<a, u>>) + new
        /\ \A b \in AssetIds : b # a => Held(t, b) = Held(table, b)
    BY <1>2, SetLeaves
  <1>4. supplies \in [AssetIds -> Nat] /\ supplies[a] = new_supply
        /\ \A b \in AssetIds : b # a => supplies[b] = supply[b]
    BY <1>2
  <1>5. last = [i \in 1..1 |-> [table |-> t, supply |-> supplies, from |-> t, to |-> t]]
    BY DEF Writes, Last
  <1> HIDE DEF t, supplies
  <1>6. (kind = "deposit" /\ a = a) \/ Held(t, a) <= supply[a]
    BY <1>2, <1>3
  <1>7. AtRest(t, supplies)
    <2>1. Held(t, a) <= supplies[a]
      BY <1>2, <1>3, <1>4
    <2>2. \A b \in AssetIds : b # a => Held(t, b) <= supplies[b]
      BY <1>2, <1>3, <1>4 DEF AtRest
    <2>3. QED
      BY <1>3, <1>4, <2>1, <2>2 DEF AtRest
  <1>8. /\ Points(sets, kind, a) /\ Len(sets) \in Nat \ {0}
        /\ \A i \in 1..Len(sets) : sets[i].supply = supply
    <2>1. t = Last(tables)
      BY DEF t
    <2> HIDE DEF tables, sets
    <2>2. tables = SetWrites(table, <<a, u>>, new) /\ sets = Writes(tables, table, supply)
      BY DEF tables, sets
    <2>3. QED
      BY <1>2, <1>6, <2>1, <2>2, SetPoints
  <1> HIDE DEF sets, last
  <1>9. /\ Len(last) = 1 /\ IsList(last)
        /\ last[1] = [table |-> t, supply |-> supplies, from |-> t, to |-> t]
    BY <1>5 DEF IsList
  <1>10. Points(last, kind, a)
    <2>1. \A i \in 1..Len(last) : i = 1
      BY <1>9
    <2>2. Point(last[1], kind, a)
      BY <1>7, <1>9, RestIsPoint
    <2>3. QED
      BY <1>9, <2>1, <2>2 DEF Points
  <1>11. Points(list, kind, a)
    BY <1>8, <1>10, JoinedPoints
  <1>12. /\ Len(list) = Len(sets) + 1
         /\ \A i \in 1..Len(sets) : list[i] = sets[i]
         /\ list[Len(sets) + 1] = last[1]
    <2>1. /\ Len(list) = Len(sets) + Len(last)
          /\ \A i \in 1..Len(sets) : list[i] = sets[i]
          /\ \A i \in 1..Len(last) : list[Len(sets) + i] = last[i]
      <3>1. IsList(sets) /\ IsList(last)
        BY <1>8, <1>9 DEF Points
      <3>2. QED
        BY <3>1, Joined
    <2> HIDE DEF list
    <2>2. QED
      BY <1>9, <2>1
  <1> HIDE DEF list
  <1>13. list[Len(list)].table = t /\ list[Len(list)].supply = supplies
    BY <1>9, <1>12
  <1>14. ASSUME NEW i \in 1..Len(list)
         PROVE  list[i].supply \in [AssetIds -> Nat]
    <2>1. CASE i \in 1..Len(sets)
      BY <1>2, <1>8, <1>12, <2>1
    <2>2. CASE i \notin 1..Len(sets)
      <3>1. i = Len(list)
        BY <1>8, <1>12, <2>2
      <3>2. QED
        BY <1>4, <1>13, <3>1
    <2>3. QED
      BY <2>1, <2>2
  <1>15. Len(list) # 0
    BY <1>8, <1>12
  <1>16. QED
    BY <1>1, <1>3, <1>7, <1>11, <1>13, <1>14, <1>15, StartHolds

LEMMA DepositHolds ==
  ASSUME CrashInv, NEW a \in AssetIds, NEW u \in AccountIds, NEW amount \in Amounts,
         Deposit(a, u, amount)
  PROVE  CrashInv'
  <1> DEFINE old == BalanceOf(table, <<a, u>>)
  <1>1. Whole(table) /\ supply \in [AssetIds -> Nat] /\ Idle
    BY DEF Deposit, CrashInv, AtRest
  <1>2. old \in Amounts
    BY <1>1, AccountsFinite, WholeReads
  <1>3. /\ old + amount \in Amounts /\ supply[a] + amount \in Nat
        /\ (old + amount) - old = (supply[a] + amount) - supply[a]
    <2> HIDE DEF old
    <2>1. old \in Nat /\ amount \in Nat /\ supply[a] \in Nat
      BY <1>1, <1>2, TypesAssumption DEF Amounts
    <2>2. old + amount <= MaxAmount
      BY DEF Deposit, old
    <2>3. QED
      BY <2>1, <2>2, TypesAssumption DEF Amounts
  <1>4. /\ ~NoRoom(table, <<a, u>>)
        /\ Start("deposit", a,
             BalanceThenSupply(SetWrites(table, <<a, u>>, old + amount), a, supply[a] + amount))
    BY DEF Deposit
  <1> DEFINE new == old + amount
             new_supply == supply[a] + amount
  <1>5. new \in Amounts /\ new_supply \in Nat /\ new - old = new_supply - supply[a]
    BY <1>3
  <1>6. Start("deposit", a, BalanceThenSupply(SetWrites(table, <<a, u>>, new), a, new_supply))
    BY <1>4
  <1> HIDE DEF new, new_supply
  <1>7. QED
    BY <1>1, <1>4, <1>5, <1>6, ChangeHolds

LEMMA WithdrawHolds ==
  ASSUME CrashInv, NEW a \in AssetIds, NEW u \in AccountIds, NEW amount \in Amounts,
         Withdraw(a, u, amount)
  PROVE  CrashInv'
  <1> DEFINE old == BalanceOf(table, <<a, u>>)
  <1>1. Whole(table) /\ supply \in [AssetIds -> Nat] /\ Idle
    BY DEF Withdraw, CrashInv, AtRest
  <1>2. old \in Amounts
    BY <1>1, AccountsFinite, WholeReads
  <1>3. /\ old - amount \in Amounts /\ supply[a] - amount \in Nat
        /\ (old - amount) - old = (supply[a] - amount) - supply[a]
        /\ supply[a] - amount <= supply[a]
    <2> HIDE DEF old
    <2>1. old \in 0..MaxAmount /\ amount \in Nat /\ supply[a] \in Nat
      BY <1>1, <1>2, TypesAssumption DEF Amounts
    <2>2. amount <= old /\ amount <= supply[a]
      BY DEF Withdraw, old
    <2>3. QED
      BY <2>1, <2>2, TypesAssumption DEF Amounts
  <1>4. /\ ~NoRoom(table, <<a, u>>)
        /\ Start("withdraw", a,
             BalanceThenSupply(SetWrites(table, <<a, u>>, old - amount), a, supply[a] - amount))
    BY DEF Withdraw
  <1> DEFINE new == old - amount
             new_supply == supply[a] - amount
  <1>5. /\ new \in Amounts /\ new_supply \in Nat /\ new - old = new_supply - supply[a]
        /\ new_supply <= supply[a]
    BY <1>3
  <1>6. Start("withdraw", a, BalanceThenSupply(SetWrites(table, <<a, u>>, new), a, new_supply))
    BY <1>4
  <1> HIDE DEF new, new_supply
  <1>7. QED
    BY <1>1, <1>4, <1>5, <1>6, ChangeHolds

\* The debit, then the credit unless there is no room for it.
LEMMA TransferHolds ==
  ASSUME CrashInv, NEW a \in AssetIds, NEW from \in AccountIds, NEW to \in AccountIds,
         NEW amount \in Amounts, Transfer(a, from, to, amount)
  PROVE  CrashInv'
  <1> DEFINE old == BalanceOf(table, <<a, from>>)
             other == BalanceOf(table, <<a, to>>)
             less == old - amount
             more == other + amount
             tables == SetWrites(table, <<a, from>>, less)
             t == Last(tables)
             debits == Writes(tables, table, supply)
             others == IF NoRoom(t, <<a, to>>) THEN <<>> ELSE SetWrites(t, <<a, to>>, more)
             credits == Writes(others, t, supply)
             list == debits \o credits
  <1>1. /\ Idle /\ from # to /\ amount <= old /\ more <= MaxAmount
        /\ ~NoRoom(table, <<a, from>>) /\ Start("transfer", a, list)
    BY DEF Transfer
  <1>2. /\ AtRest(table, supply) /\ Whole(table) /\ supply \in [AssetIds -> Nat]
        /\ supply[a] \in Nat /\ Held(table, a) <= supply[a]
    BY <1>1 DEF CrashInv, AtRest
  <1>3. old \in Amounts /\ other \in Amounts
    BY <1>2, AccountsFinite, WholeReads
  <1> HIDE DEF old, other
  <1>4. less \in Amounts /\ more \in Amounts /\ old \in Nat /\ other \in Nat /\ amount \in Nat
    <2>1. /\ old \in 0..MaxAmount /\ other \in 0..MaxAmount /\ amount \in 0..MaxAmount
          /\ MaxAmount \in Nat
      BY <1>3, TypesAssumption DEF Amounts
    <2>2. QED
      BY <1>1, <2>1 DEF Amounts
  <1>5. less = old - amount /\ more = other + amount
    OBVIOUS
  <1> HIDE DEF less, more
  <1>6. /\ Whole(t) /\ (FreeRecordsZero(table) => FreeRecordsZero(t))
        /\ Assigned(table, t, <<a, from>>, less)
        /\ Held(table, a) \in Nat /\ Held(t, a) \in Nat /\ less \in Nat
        /\ Held(t, a) = Held(table, a) - old + less
        /\ \A b \in AssetIds : b # a => Held(t, b) = Held(table, b)
    BY <1>1, <1>2, <1>4, SetLeaves DEF old
  <1>7. Held(t, a) = Held(table, a) - amount
    BY <1>4, <1>5, <1>6
  <1>8. BalanceOf(t, <<a, to>>) = other
    BY <1>1, <1>6, AccountsFinite DEF Assigned, other
  <1>9. /\ Points(debits, "transfer", a) /\ Len(debits) \in Nat \ {0}
        /\ debits[Len(debits)].table = t
        /\ \A i \in 1..Len(debits) : debits[i].supply = supply
    <2>1. Held(t, a) <= supply[a]
      BY <1>2, <1>4, <1>6, <1>7
    <2>2. t = Last(tables)
      OBVIOUS
    <2> HIDE DEF t, tables, debits
    <2>3. tables = SetWrites(table, <<a, from>>, less) /\ debits = Writes(tables, table, supply)
      BY DEF tables, debits
    <2>4. QED
      BY <1>1, <1>2, <1>4, <2>1, <2>2, <2>3, SetPoints
  <1>10. AtRest(t, supply)
    <2>1. \A b \in AssetIds : Held(t, b) <= supply[b]
      <3> HIDE DEF t
      <3>1. Held(t, a) <= supply[a]
        BY <1>2, <1>4, <1>6, <1>7
      <3>2. QED
        BY <1>2, <1>6, <3>1 DEF AtRest
    <2>2. QED
      BY <1>2, <1>6, <2>1 DEF AtRest
  <1> HIDE DEF t, tables, debits
  <1>11. /\ IsList(list) /\ Points(list, "transfer", a) /\ Len(list) # 0
         /\ AtRest(list[Len(list)].table, supply)
         /\ FreeRecordsZero(t) => FreeRecordsZero(list[Len(list)].table)
         /\ \A i \in 1..Len(list) : list[i].supply = supply
    <2>1. CASE NoRoom(t, <<a, to>>)
      <3>1. credits = <<>>
        BY <2>1 DEF Writes
      <3>2. IsList(credits) /\ Len(credits) = 0 /\ Points(credits, "transfer", a)
        BY <3>1, EmptyList DEF Points
      <3> HIDE DEF credits
      <3>3. Points(list, "transfer", a) /\ IsList(debits)
        BY <1>9, <3>2, JoinedPoints DEF Points
      <3>4. /\ IsList(list) /\ Len(list) = Len(debits) + Len(credits)
            /\ \A i \in 1..Len(debits) : list[i] = debits[i]
        BY <3>2, <3>3, Joined
      <3> HIDE DEF list
      <3>5. Len(list) = Len(debits) /\ Len(list) \in 1..Len(debits)
        BY <1>9, <3>2, <3>4
      <3>6. QED
        BY <1>9, <1>10, <3>3, <3>4, <3>5
    <2>2. CASE ~NoRoom(t, <<a, to>>)
      <3> DEFINE new_tables == SetWrites(t, <<a, to>>, more)
                 new_t == Last(new_tables)
      <3>1. others = new_tables
        BY <2>2
      <3> HIDE DEF others
      <3>2. /\ Whole(new_t) /\ (FreeRecordsZero(t) => FreeRecordsZero(new_t))
            /\ Held(new_t, a) \in Nat
            /\ Held(new_t, a) = Held(t, a) - other + more
            /\ \A b \in AssetIds : b # a => Held(new_t, b) = Held(t, b)
        BY <1>4, <1>6, <1>8, <2>2, SetLeaves
      <3> HIDE DEF new_t
      <3>3. Held(new_t, a) <= supply[a]
        BY <1>2, <1>4, <1>5, <1>6, <1>7, <3>2
      <3>4. AtRest(new_t, supply)
        BY <1>10, <3>2, <3>3 DEF AtRest
      <3>5. /\ Points(credits, "transfer", a) /\ Len(credits) \in Nat \ {0}
            /\ credits[Len(credits)].table = new_t
            /\ \A i \in 1..Len(credits) : credits[i].supply = supply
        <4>1. others = SetWrites(t, <<a, to>>, more) /\ new_t = Last(others)
          BY <3>1 DEF new_t
        <4>2. credits = Writes(others, t, supply)
          OBVIOUS
        <4> HIDE DEF credits, new_tables
        <4>3. QED
          BY <1>4, <1>10, <2>2, <3>3, <4>1, <4>2, SetPoints
      <3> HIDE DEF credits
      <3>6. IsList(debits) /\ IsList(credits)
        BY <1>9, <3>5 DEF Points
      <3>7. Points(list, "transfer", a)
        BY <1>9, <3>5, JoinedPoints
      <3>8. /\ IsList(list) /\ Len(list) = Len(debits) + Len(credits)
            /\ \A i \in 1..Len(debits) : list[i] = debits[i]
            /\ \A i \in 1..Len(credits) : list[Len(debits) + i] = credits[i]
        BY <3>6, Joined
      <3> HIDE DEF list
      <3>9. Len(list) # 0 /\ list[Len(list)] = credits[Len(credits)]
        BY <1>9, <3>5, <3>8
      <3>10. ASSUME NEW i \in 1..Len(list)
             PROVE  list[i].supply = supply
        <4>1. CASE i <= Len(debits)
          <5>1. i \in 1..Len(debits)
            BY <1>9, <3>5, <3>8, <4>1
          <5>2. QED
            BY <1>9, <3>8, <5>1
        <4>2. CASE ~(i <= Len(debits))
          <5> DEFINE l == Len(debits)
                     j == i - l
          <5>1. j \in 1..Len(credits) /\ l + j = i
            BY <1>9, <3>5, <3>8, <4>2
          <5>2. list[i] = credits[j]
            BY <3>8, <5>1
          <5> HIDE DEF j
          <5>3. QED
            BY <3>5, <5>1, <5>2
        <4>3. QED
          BY <4>1, <4>2
      <3>11. QED
        BY <3>2, <3>4, <3>5, <3>7, <3>8, <3>9, <3>10
    <2>3. QED
      BY <2>1, <2>2
  <1> HIDE DEF list
  <1>12. \A i \in 1..Len(list) : list[i].supply \in [AssetIds -> Nat]
    BY <1>2, <1>11
  <1>13. Len(list) \in 1..Len(list)
    BY <1>11 DEF IsList
  <1>14. AtRest(list[Len(list)].table, list[Len(list)].supply)
    BY <1>11, <1>13
  <1>15. FreeRecordsZero(table) => FreeRecordsZero(list[Len(list)].table)
    BY <1>6, <1>11
  <1>16. QED
    BY <1>1, <1>11, <1>12, <1>14, <1>15, StartHolds

LEMMA WriteHolds ==
  ASSUME CrashInv, Write
  PROVE  CrashInv'
  <1> DEFINE n == Len(writes)
             p == writes[1]
             rest == Tail(writes)
  <1>1. /\ writes # <<>> /\ ~stopped /\ IsList(writes) /\ n # 0 /\ n \in Nat
        /\ AtRest(writes[n].table, writes[n].supply)
        /\ \A i \in 1..n : writes[i].supply \in [AssetIds -> Nat]
        /\ fresh => FreeRecordsZero(writes[n].table)
    <2>1. writes # <<>> /\ IsList(writes)
      BY DEF Write, CrashInv, Points
    <2>2. n # 0 /\ n \in Nat
      BY <2>1, ListEmpty DEF IsList
    <2>3. QED
      BY <2>1, <2>2 DEF CrashInv
  <1>2. /\ Head(writes) = p /\ IsList(rest) /\ Len(rest) = n - 1
        /\ \A i \in 1..(n - 1) : rest[i] = writes[i + 1]
    BY <1>1, TailOf
  <1>3. /\ table' = p.table /\ supply' = p.supply /\ writes' = rest
        /\ stopped' = stopped /\ fresh' = fresh
        /\ call' = IF n = 1 THEN NoCall(p.table)
                   ELSE [call EXCEPT !.from = p.from, !.to = p.to]
    BY <1>2 DEF Write
  <1>4. 1 \in 1..n /\ \A i \in 1..(n - 1) : i + 1 \in 1..n
    BY <1>1
  <1>5. Point(p, call.kind, call.asset) /\ p.supply \in [AssetIds -> Nat]
    BY <1>1, <1>4 DEF CrashInv, Points
  <1> HIDE DEF n, p, rest
  <1>6. CASE n = 1
    <2>1. rest = <<>>
      BY <1>2, <1>6, ListEmpty
    <2>2. /\ call' = [kind |-> "none", asset |-> 0, from |-> table', to |-> table']
      BY <1>3, <1>6 DEF NoCall
    <2>3. /\ call' = [kind |-> call'.kind, asset |-> call'.asset, from |-> call'.from, to |-> call'.to]
          /\ call'.from = table' /\ call'.to = table'
      BY <2>2
    <2>4. AtRest(table', supply') /\ (fresh => FreeRecordsZero(table'))
      BY <1>1, <1>3, <1>6 DEF p
    <2>5. Point([table |-> table', supply |-> supply', from |-> call'.from, to |-> call'.to],
                call'.kind, call'.asset)
      BY <2>3, <2>4, RestIsPoint
    <2>6. Points(writes', call'.kind, call'.asset)
      BY <1>3, <2>1, EmptyList DEF Points
    <2>7. stopped' \in BOOLEAN
      BY <1>3 DEF CrashInv
    <2>8. writes' = <<>>
      BY <1>3, <2>1
    <2>9. QED
      BY <1>3, <2>3, <2>4, <2>5, <2>6, <2>7, <2>8 DEF CrashInv, AtRest
  <1>7. CASE n # 1
    <2>1. rest # <<>> /\ Len(rest) \in 1..(n - 1) /\ Len(rest) + 1 = n
      BY <1>1, <1>2, <1>7, EmptyList
    <2>2. call' = [call EXCEPT !.from = p.from, !.to = p.to]
      BY <1>3, <1>7
    <2>3. call = [kind |-> call.kind, asset |-> call.asset, from |-> call.from, to |-> call.to]
      BY DEF CrashInv
    <2>4. call' = [kind |-> call.kind, asset |-> call.asset, from |-> p.from, to |-> p.to]
      BY <2>2, <2>3
    <2>5. /\ call'.kind = call.kind /\ call'.asset = call.asset
          /\ call'.from = p.from /\ call'.to = p.to
          /\ call' = [kind |-> call'.kind, asset |-> call'.asset, from |-> call'.from, to |-> call'.to]
      BY <2>4
    <2>6. Point([table |-> table', supply |-> supply', from |-> call'.from, to |-> call'.to],
                call'.kind, call'.asset)
      BY <1>3, <1>5, <2>5 DEF Point
    <2>7. \A i \in 1..Len(rest) : i + 1 \in 1..n /\ rest[i] = writes[i + 1]
      BY <1>1, <1>2, <1>4
    <2>8. Points(writes', call'.kind, call'.asset)
      BY <1>2, <1>3, <2>5, <2>7 DEF CrashInv, Points, n
    <2>9. rest[Len(rest)] = writes[n]
      BY <1>2, <2>1
    <2>10. \A i \in 1..Len(rest) : rest[i].supply \in [AssetIds -> Nat]
      BY <1>1, <2>7
    <2>11. /\ writes' # <<>> /\ ~stopped' /\ stopped' \in BOOLEAN
           /\ supply' \in [AssetIds -> Nat]
           /\ AtRest(writes'[Len(writes')].table, writes'[Len(writes')].supply)
           /\ \A i \in 1..Len(writes') : writes'[i].supply \in [AssetIds -> Nat]
           /\ fresh' => FreeRecordsZero(writes'[Len(writes')].table)
      BY <1>1, <1>3, <1>5, <2>1, <2>9, <2>10 DEF CrashInv
    <2>12. ~Idle'
      BY <2>11 DEF Idle
    <2>13. QED
      BY <2>5, <2>6, <2>8, <2>11, <2>12 DEF CrashInv
  <1>8. QED
    BY <1>6, <1>7

LEMMA StopHolds == CrashInv /\ Stop => CrashInv'
  <1> SUFFICES ASSUME CrashInv, Stop
               PROVE  CrashInv'
    OBVIOUS
  <1>1. /\ writes' = <<>> /\ stopped' = (writes # <<>>) /\ ~stopped
        /\ table' = table /\ supply' = supply /\ call' = call /\ fresh' = fresh
    BY DEF Stop
  <1>2. Points(writes', call'.kind, call'.asset)
    BY <1>1, EmptyList DEF Points
  <1>3. Idle' => Idle
    BY <1>1 DEF Idle
  <1>4. stopped' \in BOOLEAN
    BY <1>1
  <1>5. QED
    BY <1>1, <1>2, <1>3, <1>4 DEF CrashInv, AtRest

LEMMA CreateHolds == CrashInv /\ Create => CrashInv'
  <1> SUFFICES ASSUME CrashInv, Create
               PROVE  CrashInv'
    OBVIOUS
  <1>1. /\ writes' = <<>> /\ table' = CreateOver(table) /\ supply' = [a \in AssetIds |-> 0]
        /\ call' = [kind |-> "none", asset |-> 0, from |-> table', to |-> table']
        /\ stopped' = FALSE /\ fresh' = FALSE
    BY DEF Create, NoCall
  <1>2. table.balances \in Records
    BY DEF CrashInv, Point
  <1>3. AtRest(table', supply')
    BY <1>1, <1>2, CreateIsWhole, EmptyHeld
  <1>4. /\ call' = [kind |-> call'.kind, asset |-> call'.asset, from |-> call'.from, to |-> call'.to]
        /\ call'.from = table' /\ call'.to = table'
    BY <1>1
  <1>5. Point([table |-> table', supply |-> supply', from |-> call'.from, to |-> call'.to],
              call'.kind, call'.asset)
    BY <1>3, <1>4, RestIsPoint
  <1>6. Points(writes', call'.kind, call'.asset)
    BY <1>1, EmptyList DEF Points
  <1>7. QED
    BY <1>1, <1>3, <1>4, <1>5, <1>6 DEF CrashInv, AtRest

LEMMA SameHolds == CrashInv /\ UNCHANGED crashVars => CrashInv'
  BY DEF CrashInv, crashVars, Idle, AtRest

LEMMA CrashNextHolds == CrashInv /\ [CrashNext]_crashVars => CrashInv'
  <1> SUFFICES ASSUME CrashInv, [CrashNext]_crashVars
               PROVE  CrashInv'
    OBVIOUS
  <1>1. ASSUME NEW a \in AssetIds, NEW u \in AccountIds, NEW amount \in Amounts,
               Deposit(a, u, amount)
        PROVE  CrashInv'
    BY <1>1, DepositHolds
  <1>2. ASSUME NEW a \in AssetIds, NEW u \in AccountIds, NEW amount \in Amounts,
               Withdraw(a, u, amount)
        PROVE  CrashInv'
    BY <1>2, WithdrawHolds
  <1>3. ASSUME NEW a \in AssetIds, NEW u \in AccountIds, NEW amount \in Amounts,
               NEW to \in AccountIds, Transfer(a, u, to, amount)
        PROVE  CrashInv'
    BY <1>3, TransferHolds
  <1>4. CASE Write
    BY <1>4, WriteHolds
  <1>5. CASE Stop
    BY <1>5, StopHolds
  <1>6. CASE Create
    BY <1>6, CreateHolds
  <1>7. CASE Read \/ UNCHANGED crashVars
    BY <1>7, SameHolds DEF Read
  <1>8. QED
    BY <1>1, <1>2, <1>3, <1>4, <1>5, <1>6, <1>7 DEF CrashNext

LEMMA CrashInvariance == CrashSpec => []CrashInv
  BY CrashInitHolds, CrashNextHolds, PTL DEF CrashSpec

\* A call that ran to its end leaves a whole table, covered by the supplies, in
\* which the next set of any pair changes that pair only and gives the table of
\* the step SetBalance; so it is in a ledger created over the array of records
\* that a call left half written.
THEOREM CallsEnd == CrashSpec => []CallsEndWhole
  <1>1. CrashInv => CallsEndWhole
    <2> SUFFICES ASSUME CrashInv, Idle
                 PROVE  /\ Packed(table) /\ WithinLimit(table) /\ CountsMatch(table)
                        /\ fresh => FreeRecordsZero(table)
                        /\ \A k \in Key, amount \in Amounts :
                             ~NoRoom(table, k) => SetsOne(table, k, amount)
                        /\ \A a \in AssetIds : Held(table, a) <= supply[a]
      BY DEF CallsEndWhole
    <2>1. AtRest(table, supply) /\ (fresh => FreeRecordsZero(table))
      BY DEF CrashInv
    <2>2. Whole(table)
      BY <2>1 DEF AtRest
    <2>3. ASSUME NEW k \in Key, NEW amount \in Amounts, ~NoRoom(table, k)
          PROVE  SetsOne(table, k, amount)
      <3> DEFINE list == SetWrites(table, k, amount)
                 t == Last(list)
      <3>1. /\ Staged(table, k, amount, list)
            /\ SetsBalance(table, t, k, k \in Withdrawable, HeaderFor(k), amount)
        BY <2>2, <2>3, SetWritesStaged
      <3> HIDE DEF list
      <3>2. t = SetBalance(table, k, k \in Withdrawable, HeaderFor(k), amount)
        BY <3>1 DEF Staged
      <3>3. \A j \in Key : BalanceOf(t, j) = IF j = k THEN amount ELSE BalanceOf(table, j)
        BY <3>1 DEF SetsBalance, Assigned
      <3>4. QED
        BY <3>2, <3>3 DEF SetsOne, list
    <2>4. QED
      BY <2>1, <2>2, <2>3 DEF Whole, AtRest
  <1>2. QED
    BY <1>1, CrashInvariance, PTL

\* Wherever the process stops in a call, each balance reads as before or as after
\* the set under way, but for the dropped entry, which may read as the last one of
\* its array, and the owner of the last record, which may read zero.
THEOREM StopsReadOldOrNew == CrashSpec => []OldOrNew
  <1>1. CrashInv => OldOrNew
    <2> SUFFICES ASSUME CrashInv
                 PROVE  OldOrNew
      OBVIOUS
    <2>1. OldOrNewAt(table, call.from, call.to)
      BY DEF CrashInv, Point
    <2>2. \A k : MovedFor(k) = MovedIn(call.from, k)
      BY DEF MovedFor, MovedIn
    <2>3. QED
      BY <2>1, <2>2 DEF OldOrNew, OldOrNewAt, Dropped
  <1>2. QED
    BY <1>1, CrashInvariance, PTL

\* A withdrawal or a transfer that stops leaves every asset covered by its supply,
\* unless it stopped while it dropped an entry of the asset.
THEOREM StopsStayCovered == CrashSpec => []SupplyCoversStopped
  <1>1. CrashInv => SupplyCoversStopped
    <2> SUFFICES ASSUME CrashInv
                 PROVE  SupplyCoversStopped
      OBVIOUS
    <2>1. CoveredAt(table, supply, call.kind, call.asset, call.from, call.to)
      BY DEF CrashInv, Point
    <2>2. QED
      BY <2>1 DEF SupplyCoversStopped, CoveredAt, Dropped
  <1>2. QED
    BY <1>1, CrashInvariance, PTL
=============================================================================
