---------------------------- MODULE BalanceStore ----------------------------
(***************************************************************************)
(* The balance storage of cma_ledger_memory on its own: any sequence of    *)
(* set_account_asset_balance and clear calls.  Whether a pair's balance is *)
(* withdrawable, and what its record says, depends on the asset and the    *)
(* account only and is a constant here; LedgerMemory computes it.          *)
(***************************************************************************)
EXTENDS BalanceTable

CONSTANTS
  Withdrawable,     \* the pairs whose balance gets a record
  HeaderOf          \* what the record of such a pair says

ASSUME StoreAssumption ==
  /\ Withdrawable \subseteq Key
  /\ HeaderOf \in [Withdrawable -> Header]
  /\ \A k \in Withdrawable :
       /\ ~HasToken(HeaderOf[k].type) => HeaderOf[k].token_address = Zero
       /\ ~HasTokenId(HeaderOf[k].type) => HeaderOf[k].token_id = Zero

VARIABLE table

Init == table = EmptyTable

HeaderFor(k) == IF k \in Withdrawable THEN HeaderOf[k] ELSE NoHeader

\* A new entry is refused when the map is full (MAX_BALANCES_REACHED).
SetAccountAssetBalance(k, amount) ==
  /\ k \in Entries(table) \/ ~Full(table)
  /\ table' = SetBalance(table, k, k \in Withdrawable, HeaderFor(k), amount)

Clear == table' = ClearTable(table)

Next ==
  \/ Clear
  \/ \E k \in Key, amount \in Amounts : SetAccountAssetBalance(k, amount)

Spec == Init /\ [][Next]_table

-----------------------------------------------------------------------------
\* The types of the structures of the table.
TypeOK == TableType(table)

\* Map, arrays and key lists stay in step through every swap with the last
\* position (ledger_impl.cpp:1452-1573), and the records past the end of
\* last_balances are zero, as the next new record relies on.
StorePacked == Packed(table) /\ WithinLimit(table) /\ FreeRecordsZero(table)

\* n_balances, on which remove_account decides, is the number of entries of
\* the account (ledger_impl.cpp:1444, 1486, 1560).
StoreCounts == CountsMatch(table)

\* A record that moved still describes the balance of the pair that owns it:
\* the drive reader and the withdrawal proofs read nothing else.
RecordsDescribe ==
  \A k \in Entries(table) :
    IF k \in Withdrawable
    THEN /\ ~IsVirtual(table, k)
         /\ table.balances[At(table, k)].header = HeaderOf[k]
    ELSE IsVirtual(table, k)

\* The storage is a map from pairs to amounts: no set, drop or swap changes
\* the balance of another pair.
Map == INSTANCE BalanceMap WITH NoAmount <- 0,
         balance <- [k \in Key |-> BalanceOf(table, k)]

RefinesMap == Map!Spec
=============================================================================
