----------------------------- MODULE LedgerSpec -----------------------------
(***************************************************************************)
(* What a ledger promises (include/libcma/ledger.h): assets and accounts   *)
(* that come and go, a balance for each pair, and calls that either take   *)
(* effect as a whole or do nothing.  There is no supply here: the supply   *)
(* of an asset is the total of its balances.                               *)
(***************************************************************************)
EXTENDS Integers, FiniteSetsExt

CONSTANTS AssetIds, AccountIds, MaxAmount

VARIABLES
  single,     \* the live assets, and whether only one unit of it can exist
  accounts,   \* the live accounts
  balance     \* [AssetIds \X AccountIds -> 0..MaxAmount]

vars == <<single, accounts, balance>>

assets == DOMAIN single

Total(a) == SumFunction([u \in AccountIds |-> balance[<<a, u>>]])

Init ==
  /\ single = <<>>
  /\ accounts = {}
  /\ balance = [k \in AssetIds \X AccountIds |-> 0]

CreateAsset(a, is_single) ==
  /\ a \notin assets
  /\ single' = [b \in assets \cup {a} |-> IF b = a THEN is_single ELSE single[b]]
  /\ UNCHANGED <<accounts, balance>>

\* An asset goes only when nobody holds any of it.
RemoveAsset(a) ==
  /\ a \in assets /\ Total(a) = 0
  /\ single' = [b \in assets \ {a} |-> single[b]]
  /\ UNCHANGED <<accounts, balance>>

CreateAccount(u) ==
  /\ u \notin accounts
  /\ accounts' = accounts \cup {u}
  /\ UNCHANGED <<single, balance>>

\* An account goes only when it holds nothing.
RemoveAccount(u) ==
  /\ u \in accounts /\ \A a \in AssetIds : balance[<<a, u>>] = 0
  /\ accounts' = accounts \ {u}
  /\ UNCHANGED <<single, balance>>

Deposit(a, u, amount) ==
  /\ a \in assets /\ u \in accounts
  /\ Total(a) + amount <= (IF single[a] THEN 1 ELSE MaxAmount)
  /\ balance' = [balance EXCEPT ![<<a, u>>] = @ + amount]
  /\ UNCHANGED <<single, accounts>>

Withdraw(a, u, amount) ==
  /\ a \in assets /\ u \in accounts
  /\ amount <= balance[<<a, u>>]
  /\ balance' = [balance EXCEPT ![<<a, u>>] = @ - amount]
  /\ UNCHANGED <<single, accounts>>

Transfer(a, from, to, amount) ==
  /\ a \in assets /\ {from, to} \subseteq accounts /\ from # to
  /\ amount <= balance[<<a, from>>]
  /\ balance' = [balance EXCEPT ![<<a, from>>] = @ - amount,
                                ![<<a, to>>] = @ + amount]
  /\ UNCHANGED <<single, accounts>>

Reset ==
  /\ single' = <<>>
  /\ accounts' = {}
  /\ balance' = [k \in DOMAIN balance |-> 0]

Next ==
  \/ Reset
  \/ \E a \in AssetIds : RemoveAsset(a) \/ \E b \in BOOLEAN : CreateAsset(a, b)
  \/ \E u \in AccountIds : CreateAccount(u) \/ RemoveAccount(u)
  \/ \E a \in AssetIds, u \in AccountIds, amount \in 0..MaxAmount :
       \/ Deposit(a, u, amount)
       \/ Withdraw(a, u, amount)
       \/ \E to \in AccountIds : Transfer(a, u, to, amount)

Spec == Init /\ [][Next]_vars
=============================================================================
