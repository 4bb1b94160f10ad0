----------------------------- MODULE LedgerCrash -----------------------------
(***************************************************************************)
(* A process that stops in the middle of a call on a ledger in a file.     *)
(* deposit, withdraw and transfer write to mapped memory one member at a   *)
(* time; the file keeps what was written, in program order, and OPEN_ONLY  *)
(* takes it as it is (ledger_impl.cpp:642-680).  Here a call is the        *)
(* sequence of states its writes make, and may end before any of them.     *)
(* CREATE_ONLY makes a new ledger over the same memory: new maps and lists *)
(* (ledger_impl.cpp:682-720), and the array of records as it was left,     *)
(* since it lies before the managed memory and nothing clears it.          *)
(*                                                                         *)
(* Assets and accounts are there already; which pairs have a record is the *)
(* constant of BalanceStore.  Calls that are refused write nothing         *)
(* (module LedgerMemory) and are left out.                                 *)
(***************************************************************************)
EXTENDS BalanceStore

VARIABLES
  supply,    \* of each asset, in lassid_to_asset
  writes,    \* what the call under way has still to write
  call,      \* what it does, and the set_account_asset_balance it is in
  stopped,   \* the process stopped in the middle of a call
  fresh      \* the memory was zero when the ledger was created in it

crashVars == <<table, supply, writes, call, stopped, fresh>>

NoCall(s) == [kind |-> "none", asset |-> 0, from |-> s, to |-> s]

CrashInit ==
  /\ Init
  /\ supply = [a \in AssetIds |-> 0]
  /\ writes = <<>>
  /\ call = NoCall(table)
  /\ stopped = FALSE
  /\ fresh = TRUE

-----------------------------------------------------------------------------
(* The writes of set_account_asset_balance: the table after each of them.  *)

NewVirtualWrites(s, k, amount) ==
  LET pushed  == [s EXCEPT !.virtual_balances = Append(@, amount)]
      listed  == [pushed EXCEPT !.last_virtual_balances = Append(@, k)]
      mapped  == [listed EXCEPT !.account_asset_balance =
                    Insert(@, k, [type |-> "VIRTUAL", at |-> Len(pushed.virtual_balances)])]
      counted == [mapped EXCEPT !.n_balances = Count(@, k[2], 1)]
  IN  <<pushed, listed, mapped, counted>>

NewWithdrawableWrites(s, k, header, amount) ==
  LET new_index == Len(s.last_balances) + 1
      recorded  == [s EXCEPT !.balances[new_index] = WriteRecord(@, header, amount)]
      listed    == [recorded EXCEPT !.last_balances = Append(@, k)]
      mapped    == [listed EXCEPT !.account_asset_balance =
                      Insert(@, k, [type |-> "WITHDRAWABLE", at |-> new_index])]
      counted   == [mapped EXCEPT !.n_balances = Count(@, k[2], 1)]
  IN  <<recorded, listed, mapped, counted>>

\* Fault: the owner of the last position is pointed to the other one too early.
RepointFirst(s, k) ==
  LET last    == Last(s.last_virtual_balances)
      zeroed  == OverwriteVirtual(s, k, 0)
      repoint == [zeroed EXCEPT !.account_asset_balance[last].at = At(s, k)]
  IN  <<zeroed, repoint, DropVirtual(s, k)>>

DropVirtualWrites(s, k) ==
  LET last     == Last(s.last_virtual_balances)
      zeroed   == OverwriteVirtual(s, k, 0)
      copied   == [zeroed EXCEPT !.virtual_balances = MoveTo(@, At(s, last), At(s, k))]
      repoint  == [copied EXCEPT !.account_asset_balance[last].at = At(s, k)]
      listed   == [repoint EXCEPT !.last_virtual_balances[PositionOf(s.last_virtual_balances, k)] = last]
      counted  == [listed EXCEPT !.n_balances = Count(@, k[2], -1)]
      unlisted == [counted EXCEPT !.last_virtual_balances = Front(@)]
      unpushed == [unlisted EXCEPT !.virtual_balances = Front(@)]
      erased   == [unpushed EXCEPT !.account_asset_balance = Erase(@, k)]
  IN  <<zeroed, copied, repoint, listed, counted, unlisted, unpushed, erased>>

\* The fields are copied one by one, the amount after the others.
DropWithdrawableWrites(s, k) ==
  LET last     == Last(s.last_balances)
      zeroed   == OverwriteWithdrawable(s, k, 0)
      described == [zeroed EXCEPT !.balances[At(s, k)].header = s.balances[At(s, last)].header]
      copied   == [described EXCEPT !.balances = MoveTo(@, At(s, last), At(s, k))]
      nullified == [copied EXCEPT !.balances[At(s, last)] = ZeroRecord]
      repoint  == [nullified EXCEPT !.account_asset_balance[last].at = At(s, k)]
      listed   == [repoint EXCEPT !.last_balances[PositionOf(s.last_balances, k)] = last]
      counted  == [listed EXCEPT !.n_balances = Count(@, k[2], -1)]
      unlisted == [counted EXCEPT !.last_balances = Front(@)]
      erased   == [unlisted EXCEPT !.account_asset_balance = Erase(@, k)]
  IN  <<zeroed, described, copied, nullified, repoint, listed, counted, unlisted, erased>>

\* set_account_asset_balance of k in table s.
SetWrites(s, k, amount) ==
  CASE k \notin Entries(s) /\ k \in Withdrawable ->
         NewWithdrawableWrites(s, k, HeaderFor(k), amount)
    [] k \notin Entries(s) /\ k \notin Withdrawable -> NewVirtualWrites(s, k, amount)
    [] k \in Entries(s) /\ amount # 0 -> <<SetBalance(s, k, FALSE, NoHeader, amount)>>
    [] k \in Entries(s) /\ amount = 0 ->
         IF IsVirtual(s, k) THEN DropVirtualWrites(s, k) ELSE DropWithdrawableWrites(s, k)

-----------------------------------------------------------------------------
(* The calls. *)

NoRoom(s, k) == k \notin Entries(s) /\ Full(s)

\* A write: the table and the supplies after it, and which set it belongs to.
Writes(tables, from, supplies) ==
  [i \in DOMAIN tables |->
     [table |-> tables[i], supply |-> supplies, from |-> from, to |-> Last(tables)]]

Start(kind, a, call_writes) ==
  /\ writes' = call_writes
  /\ call' = [kind |-> kind, asset |-> a, from |-> table, to |-> table]
  /\ UNCHANGED <<table, supply, stopped, fresh>>

\* Fault: the supply before the balance.
SupplyThenBalance(tables, a, new_supply) ==
  LET supplies == [supply EXCEPT ![a] = new_supply]
  IN  Writes(<<table>>, table, supplies) \o Writes(tables, table, supplies)

\* deposit and withdraw set the balance, then the supply.
BalanceThenSupply(tables, a, new_supply) ==
  Writes(tables, table, supply)
    \o Writes(<<Last(tables)>>, Last(tables), [supply EXCEPT ![a] = new_supply])

Idle == writes = <<>> /\ ~stopped

Deposit(a, u, amount) ==
  /\ Idle
  /\ amount # 0
  /\ supply[a] + amount <= MaxAmount
  /\ BalanceOf(table, <<a, u>>) + amount <= MaxAmount
  /\ ~NoRoom(table, <<a, u>>)
  /\ Start("deposit", a,
       BalanceThenSupply(SetWrites(table, <<a, u>>, BalanceOf(table, <<a, u>>) + amount),
                         a, supply[a] + amount))

Withdraw(a, u, amount) ==
  /\ Idle
  /\ amount <= supply[a]
  /\ amount <= BalanceOf(table, <<a, u>>)
  /\ ~NoRoom(table, <<a, u>>)
  /\ Start("withdraw", a,
       BalanceThenSupply(SetWrites(table, <<a, u>>, BalanceOf(table, <<a, u>>) - amount),
                         a, supply[a] - amount))

\* Both balances were read before either is set.
Transfer(a, from, to, amount) ==
  /\ Idle
  /\ from # to
  /\ amount <= BalanceOf(table, <<a, from>>)
  /\ BalanceOf(table, <<a, to>>) + amount <= MaxAmount
  /\ ~NoRoom(table, <<a, from>>)
  /\ LET debits  == SetWrites(table, <<a, from>>, BalanceOf(table, <<a, from>>) - amount)
         credits == IF NoRoom(Last(debits), <<a, to>>) THEN <<>>
                    ELSE SetWrites(Last(debits), <<a, to>>, BalanceOf(table, <<a, to>>) + amount)
     IN  Start("transfer", a,
           Writes(debits, table, supply) \o Writes(credits, Last(debits), supply))

\* The next write of the call, after which it may be over.
Write ==
  /\ writes # <<>>
  /\ table' = Head(writes).table
  /\ supply' = Head(writes).supply
  /\ writes' = Tail(writes)
  /\ call' = IF Len(writes) = 1 THEN NoCall(Head(writes).table)
             ELSE [call EXCEPT !.from = Head(writes).from, !.to = Head(writes).to]
  /\ UNCHANGED <<stopped, fresh>>

\* Between calls this changes nothing in the file.
Stop ==
  /\ ~stopped
  /\ stopped' = (writes # <<>>)
  /\ writes' = <<>>
  /\ UNCHANGED <<table, supply, call, fresh>>

\* The maps and lists of a new ledger over the memory of table s.
CreateOver(s) ==
  Table(<<>>, s.balances, <<>>, <<>>, <<>>, [u \in AccountIds |-> 0])

\* Between calls, or after a stop in the middle of one.  Bound: over memory that was
\* zero before.
Create ==
  /\ writes = <<>> /\ fresh
  /\ table' = CreateOver(table)
  /\ supply' = [a \in AssetIds |-> 0]
  /\ call' = NoCall(table')
  /\ stopped' = FALSE /\ fresh' = FALSE
  /\ UNCHANGED writes

\* The file opened again, and read: dump, totals and balances.
Read == UNCHANGED crashVars

CrashNext ==
  \/ \E a \in AssetIds, u \in AccountIds, amount \in Amounts :
       \/ Deposit(a, u, amount)
       \/ Withdraw(a, u, amount)
       \/ \E to \in AccountIds : Transfer(a, u, to, amount)
  \/ Write
  \/ Stop
  \/ Create
  \/ Read

CrashSpec == CrashInit /\ [][CrashNext]_crashVars

-----------------------------------------------------------------------------
\* Entries the call takes out, and whose entry takes the place of such a one.
Dropped == Entries(call.from) \ Entries(call.to)

MovedFor(k) ==
  Last(IF IsVirtual(call.from, k) THEN call.from.last_virtual_balances
                                  ELSE call.from.last_balances)

InArray(s, k) ==
  At(s, k) \in DOMAIN IF IsVirtual(s, k) THEN s.virtual_balances ELSE s.balances

\* pop_back leaves the bytes of the element, zero by then, to an entry that is
\* still to be erased.
ReadOf(s, k) ==
  IF k \in Entries(s) /\ ~InArray(s, k) THEN 0 ELSE BalanceOf(s, k)

Held(s, a) == SumFunction([u \in AccountIds |-> ReadOf(s, <<a, u>>)])

\* A set is an assignment to its pair, and gets write by write to the table that
\* the other modules give it in one step.
SetsOne(s, k, amount) ==
  LET after == Last(SetWrites(s, k, amount)) IN
  /\ after = SetBalance(s, k, k \in Withdrawable, HeaderFor(k), amount)
  /\ \A j \in Key : BalanceOf(after, j) = IF j = k THEN amount ELSE BalanceOf(s, j)

\* Between calls the table is whole and the supplies cover it, and the next set of
\* any pair will change that pair only, whatever an earlier ledger left in
\* the array of records.
CallsEndWhole ==
  Idle =>
    /\ Packed(table) /\ WithinLimit(table) /\ CountsMatch(table)
    /\ fresh => FreeRecordsZero(table)
    /\ \A k \in Key, amount \in Amounts : ~NoRoom(table, k) => SetsOne(table, k, amount)
    /\ \A a \in AssetIds : Held(table, a) <= supply[a]

\* Wherever the process stops, a balance reads as before the set or as after it,
\* with two exceptions, both while an entry is dropped: the dropped one reads as
\* the last one from "copy the last balance to current position" until it is
\* erased (ledger_impl.cpp:1480, 1532), and the owner of the last record reads zero
\* between "nullify last position" and "point last balance to current position"
\* (ledger_impl.cpp:1548, 1553).  No other balance is ever at risk, and no pointer of
\* the map leaves its array but that of the dropped entry.
OldOrNew ==
  \A k \in Key :
    /\ k \in Entries(table) => InArray(table, k) \/ k \in Dropped
    /\ \/ ReadOf(table, k) \in {BalanceOf(call.from, k), BalanceOf(call.to, k)}
       \/ k \in Dropped /\ ReadOf(table, k) = BalanceOf(call.from, MovedFor(k))
       \/ /\ ReadOf(table, k) = 0
          /\ \E dropped \in Dropped : k = MovedFor(dropped) /\ ~IsVirtual(call.from, k)

\* More is held of an asset than its supply only where a deposit stopped, the
\* balance written and the supply not, or where a dropped entry reads as another: a
\* withdrawal or a transfer that stops leaves every other unit covered.
SupplyCoversStopped ==
  \A a \in AssetIds :
    Held(table, a) > supply[a] =>
      \/ call.kind = "deposit" /\ call.asset = a
      \/ \E k \in Dropped : k[1] = a
=============================================================================
