----------------------------- MODULE BalanceMap -----------------------------
(***************************************************************************)
(* What the balance storage of the ledger promises: one amount for each    *)
(* (asset, account) pair, zero until it is set, and a set that changes the *)
(* pair it names and no other.                                             *)
(***************************************************************************)
CONSTANTS Key, Amounts, NoAmount

VARIABLE balance

Init == balance = [k \in Key |-> NoAmount]

Set(k, amount) == balance' = [balance EXCEPT ![k] = amount]

Clear == balance' = [k \in Key |-> NoAmount]

Next == Clear \/ \E k \in Key, amount \in Amounts : Set(k, amount)

Spec == Init /\ [][Next]_balance
=============================================================================
