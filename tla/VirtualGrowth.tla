---------------------------- MODULE VirtualGrowth ----------------------------
(***************************************************************************)
(* Where the virtual balances lie.  The map keeps a pointer to each (cma_- *)
(* balance_t, ledger_impl.h:166-170) and virtual_balances is a vector: it  *)
(* has room for INIT_BALANCE of them (ledger_impl.cpp:677, 717, 757), and  *)
(* the push_back that needs more takes a larger block, in the same place   *)
(* or in another one, and gives the old block back.                        *)
(*                                                                         *)
(* The other modules take pointers for positions; this one says when they  *)
(* may.  Opening a file reserves again, which finds the room there.        *)
(***************************************************************************)
EXTENDS BalanceStore

CONSTANT INIT_BALANCE

ASSUME ReserveAssumption == INIT_BALANCE \in Nat

VARIABLES
  capacity,   \* of virtual_balances
  stale       \* the keys that point into a block that was given back

growthVars == <<table, capacity, stale>>

\* Fault: the constructor reserves nothing.
NoReserve == 0

Reserve == INIT_BALANCE

GrowthInit == Init /\ capacity = Reserve /\ stale = {}

VirtualEntries(s) == {k \in Entries(s) : IsVirtual(s, k)}

\* The elements are copied; what points to them is not known to the vector.
Grow ==
  /\ capacity' = Len(table'.virtual_balances)
  /\ stale' \in {stale, VirtualEntries(table)}

\* Once a pointer is stale, a call may write to memory that is in use for something
\* else, and nothing is said of it here.
Set(k, amount) ==
  /\ stale = {}
  /\ SetAccountAssetBalance(k, amount)
  /\ \/ Len(table'.virtual_balances) > capacity /\ Grow
     \/ Len(table'.virtual_balances) <= capacity /\ UNCHANGED <<capacity, stale>>

\* clear keeps the block.
ClearAll == Clear /\ stale = {} /\ UNCHANGED <<capacity, stale>>

\* get_account_asset_balance reads (see Readable) and changes nothing.
Get == UNCHANGED growthVars

GrowthNext ==
  \/ \E k \in Key, amount \in Amounts : Set(k, amount)
  \/ ClearAll
  \/ Get

GrowthSpec == GrowthInit /\ [][GrowthNext]_growthVars

-----------------------------------------------------------------------------
\* What reading a balance through its pointer can give.
Readable(k) == IF k \in stale THEN Amounts ELSE {BalanceOf(table, k)}

\* The vector never has more elements than its block has room for, and until more
\* than INIT_BALANCE balances have been virtual at a time, each balance reads as the
\* amount that was set.  Those with a record do always, as the array of records
\* does not move; for the others the "Maximum number of balances" that the ledger
\* is given (sample_apps/wallet_app/app.cpp:32) is not what counts.
WithinReserveReadBack ==
  /\ Len(table.virtual_balances) <= capacity
  /\ \A k \in Key :
       capacity <= INIT_BALANCE \/ k \in Withdrawable => Readable(k) = {BalanceOf(table, k)}
=============================================================================
