---------------------------- MODULE BalanceTable ----------------------------
(***************************************************************************)
(* The balance storage of cma_ledger_memory (src/src/ledger_impl.cpp): the *)
(* map account_asset_balance, whose values point either into the fixed     *)
(* array `balances` (a record a wallet owner can prove and withdraw) or    *)
(* into the vector virtual_balances (a balance internal to the machine),   *)
(* and the lists last_balances and last_virtual_balances that give, for    *)
(* each position of an array, the key that owns it.                        *)
(*                                                                         *)
(* set_account_asset_balance keeps both arrays packed: the entry that      *)
(* reaches zero takes the content of the last position, which is then      *)
(* freed.  The steps are operators on a record s of those five structures  *)
(* and the accounts' n_balances, so that a call that sets two balances     *)
(* (transfer) composes them.                                               *)
(*                                                                         *)
(* Positions count from 1 where the code counts from 0.  A cma_balance_t   *)
(* pointer is the position it points to.  virtual_balances is assumed not  *)
(* to outgrow its reserve(INIT_BALANCE) (see the README).                  *)
(***************************************************************************)
EXTENDS LedgerTypes

CONSTANT MaxBalances  \* max_balances: records in the array, entries in the map

ASSUME TableAssumption == MaxBalances \in Nat

\* cma_ledger_account_balance_t: what a record says of its balance.
Header == [type: AssetTypes, owner: Wallets \cup {Zero},
           token_address: Tokens \cup {Zero}, token_id: TokenIds \cup {Zero}]

NoHeader == [type |-> "ID", owner |-> Zero,
             token_address |-> Zero, token_id |-> Zero]

ZeroRecord == [header |-> NoHeader, amount |-> 0]

\* The members of the ledger that hold balances.
Table(map, records, owners, virtuals, virtual_owners, counts) ==
  [account_asset_balance |-> map,
   balances              |-> records,
   last_balances         |-> owners,
   virtual_balances      |-> virtuals,
   last_virtual_balances |-> virtual_owners,
   n_balances            |-> counts]

EmptyTable ==
  Table(<<>>, [i \in 1..MaxBalances |-> ZeroRecord], <<>>, <<>>, <<>>,
        [u \in AccountIds |-> 0])

-----------------------------------------------------------------------------
(* Reading. *)

Entries(s) == DOMAIN s.account_asset_balance

IsVirtual(s, k) == s.account_asset_balance[k].type = "VIRTUAL"

At(s, k) == s.account_asset_balance[k].at

\* get_account_asset_balance: no entry reads as zero.
BalanceOf(s, k) ==
  IF k \notin Entries(s) THEN 0
  ELSE IF IsVirtual(s, k) THEN s.virtual_balances[At(s, k)]
  ELSE s.balances[At(s, k)].amount

Full(s) == Cardinality(Entries(s)) >= MaxBalances

-----------------------------------------------------------------------------
(* set_account_asset_balance, first half: an entry that is not there.  It  *)
(* is created whatever the amount, zero included.                          *)

\* Fault: the token id is never written.
WriteRecordWithoutId(old, header, amount) ==
  [header |-> [header EXCEPT !.token_id = Zero], amount |-> amount]

\* The token fields are only written when the asset type has them; the code
\* relies on the rest of a free record being zero.
WriteRecord(old, header, amount) ==
  [header |-> [type |-> header.type,
               owner |-> header.owner,
               token_address |-> IF HasToken(header.type)
                                 THEN header.token_address
                                 ELSE old.header.token_address,
               token_id |-> IF HasTokenId(header.type)
                            THEN header.token_id
                            ELSE old.header.token_id],
   amount |-> amount]

\* Fault: the counter does not move.
CountNothing(n_balances, u, change) == n_balances

Count(n_balances, u, change) ==
  [n_balances EXCEPT ![u] = n_balances[u] + change]

NewVirtual(s, k, amount) ==
  Table(Insert(s.account_asset_balance, k,
               [type |-> "VIRTUAL", at |-> Len(s.virtual_balances) + 1]),
        s.balances,
        s.last_balances,
        Append(s.virtual_balances, amount),
        Append(s.last_virtual_balances, k),
        Count(s.n_balances, k[2], 1))

NewWithdrawable(s, k, header, amount) ==
  LET new_index == Len(s.last_balances) + 1
  IN  Table(Insert(s.account_asset_balance, k,
                   [type |-> "WITHDRAWABLE", at |-> new_index]),
            [s.balances EXCEPT ![new_index] =
               WriteRecord(s.balances[new_index], header, amount)],
            Append(s.last_balances, k),
            s.virtual_balances,
            s.last_virtual_balances,
            Count(s.n_balances, k[2], 1))

-----------------------------------------------------------------------------
(* Second half: an entry that is there is overwritten, and dropped when    *)
(* the amount is zero.                                                     *)

OverwriteVirtual(s, k, amount) ==
  Table(s.account_asset_balance,
        s.balances,
        s.last_balances,
        [s.virtual_balances EXCEPT ![At(s, k)] = amount],
        s.last_virtual_balances,
        s.n_balances)

OverwriteWithdrawable(s, k, amount) ==
  Table(s.account_asset_balance,
        [s.balances EXCEPT ![At(s, k)] =
           [header |-> s.balances[At(s, k)].header, amount |-> amount]],
        s.last_balances,
        s.virtual_balances,
        s.last_virtual_balances,
        s.n_balances)

\* interprocess::find on one of the key lists.
PositionOf(list, k) == CHOOSE i \in DOMAIN list : list[i] = k

\* The pointer of the last key moves to the freed position, k is erased.
Repoint(map, k, last) ==
  Erase([map EXCEPT ![last] = [type |-> map[last].type, at |-> map[k].at]], k)

\* Fault: the list is cut without moving its last key.
CutList(list, k) == Front(list)

\* The last key takes k's place in the list; the end of the list goes.
SwapOut(list, k) == Front([list EXCEPT ![PositionOf(list, k)] = Last(list)])

\* Fault: the freed position keeps what it had.
MoveNothing(array, from, to) == array

MoveTo(array, from, to) == [array EXCEPT ![to] = array[from]]

DropVirtual(s, k) ==
  LET last == Last(s.last_virtual_balances)
  IN  Table(Repoint(s.account_asset_balance, k, last),
            s.balances,
            s.last_balances,
            Front(MoveTo(s.virtual_balances, At(s, last), At(s, k))),
            SwapOut(s.last_virtual_balances, k),
            Count(s.n_balances, k[2], -1))

DropWithdrawable(s, k) ==
  LET last  == Last(s.last_balances)
      moved == MoveTo(s.balances, At(s, last), At(s, k))
  IN  Table(Repoint(s.account_asset_balance, k, last),
            [moved EXCEPT ![At(s, last)] = ZeroRecord],
            SwapOut(s.last_balances, k),
            s.virtual_balances,
            s.last_virtual_balances,
            Count(s.n_balances, k[2], -1))

\* set_account_asset_balance, once the table is known to have room for k.
\* `withdrawable` and `header` say what a new entry for k is made of.
SetBalance(s, k, withdrawable, header, amount) ==
  IF k \notin Entries(s)
  THEN IF withdrawable THEN NewWithdrawable(s, k, header, amount)
                       ELSE NewVirtual(s, k, amount)
  ELSE IF IsVirtual(s, k)
  THEN IF amount # 0 THEN OverwriteVirtual(s, k, amount) ELSE DropVirtual(s, k)
  ELSE IF amount # 0 THEN OverwriteWithdrawable(s, k, amount)
                     ELSE DropWithdrawable(s, k)

\* Fault: the records are left as they are.
ClearListsOnly(s) ==
  Table(<<>>, s.balances, <<>>, <<>>, <<>>, [u \in AccountIds |-> 0])

\* clear: zeroes the records in use and empties every list and map.
ClearTable(s) ==
  Table(<<>>,
        [i \in 1..MaxBalances |-> IF i <= Len(s.last_balances)
                                  THEN ZeroRecord ELSE s.balances[i]],
        <<>>, <<>>, <<>>, [u \in AccountIds |-> 0])

-----------------------------------------------------------------------------
(* What the steps keep true of a table.                                    *)

TableType(s) ==
  /\ s = Table(s.account_asset_balance, s.balances, s.last_balances,
               s.virtual_balances, s.last_virtual_balances, s.n_balances)
  /\ Entries(s) \subseteq Key
  /\ s.account_asset_balance \in
        [Entries(s) -> [type: {"VIRTUAL", "WITHDRAWABLE"}, at: Nat \ {0}]]
  /\ s.balances \in [1..MaxBalances -> [header: Header, amount: Amounts]]
  /\ s.last_balances \in Seq(Key)
  /\ s.virtual_balances \in Seq(Amounts)
  /\ s.last_virtual_balances \in Seq(Key)
  /\ s.n_balances \in [AccountIds -> Nat]

\* Every entry points to a position of its array that the key list says is
\* its own, and every listed key is an entry pointing back to its position.
ListMatchesMap(s, list, type) ==
  /\ \A k \in Entries(s) :
        s.account_asset_balance[k].type = type =>
            At(s, k) \in DOMAIN list /\ list[At(s, k)] = k
  /\ \A i \in DOMAIN list :
        /\ list[i] \in Entries(s)
        /\ s.account_asset_balance[list[i]].type = type
        /\ At(s, list[i]) = i

Packed(s) ==
  /\ ListMatchesMap(s, s.last_balances, "WITHDRAWABLE")
  /\ ListMatchesMap(s, s.last_virtual_balances, "VIRTUAL")
  /\ Len(s.virtual_balances) = Len(s.last_virtual_balances)

\* Together the lists hold each entry once, and never more than the limit:
\* this is what keeps new_index inside the array.
WithinLimit(s) ==
  /\ IsFiniteSet(Entries(s))
  /\ Cardinality(Entries(s)) =
        Len(s.last_balances) + Len(s.last_virtual_balances)
  /\ Cardinality(Entries(s)) <= MaxBalances

FreeRecordsZero(s) ==
  \A i \in 1..MaxBalances : i > Len(s.last_balances) => s.balances[i] = ZeroRecord

EntriesOf(s, u) == {k \in Entries(s) : k[2] = u}

CountsMatch(s) ==
  \A u \in AccountIds : s.n_balances[u] = Cardinality(EntriesOf(s, u))

WellFormed(s) ==
  /\ TableType(s)
  /\ Packed(s)
  /\ WithinLimit(s)
  /\ FreeRecordsZero(s)
  /\ CountsMatch(s)
=============================================================================
