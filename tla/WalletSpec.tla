----------------------------- MODULE WalletSpec -----------------------------
(***************************************************************************)
(* What the wallet application promises its users: each of them has a      *)
(* claim on each token, and a request either does all that it asks, with   *)
(* the voucher for exactly what was withdrawn, or nothing.                 *)
(***************************************************************************)
EXTENDS Integers, Sequences

CONSTANTS Owners, Names    \* who can hold a claim, and on which tokens

VARIABLES
  claims,     \* [Owners \X Names -> Nat]
  request,    \* <<>>, or the request being processed
  vouchers    \* what the last request answered got out of the application

vars == <<claims, request, vouchers>>

Init ==
  /\ claims = [k \in Owners \X Names |-> 0]
  /\ request = <<>>
  /\ vouchers = <<>>

Ask ==
  /\ request = <<>> /\ request' # <<>>
  /\ vouchers' = <<>>
  /\ UNCHANGED claims

Refuse ==
  /\ request # <<>> /\ request' = <<>>
  /\ vouchers' = <<>>
  /\ UNCHANGED claims

\* The sender has what it asks to withdraw or transfer.
Covered(r) == \A n \in Names : r.amounts[n] <= claims[<<r.sender, n>>]

Changed(change(_, _)) ==
  claims' = [k \in Owners \X Names |-> claims[k] + change(k[1], k[2])]

Deposit(r) ==
  /\ r.op = "deposit"
  /\ Changed(LAMBDA w, n : IF w = r.sender THEN r.amounts[n] ELSE 0)
  /\ vouchers' = <<>>

Withdraw(r) ==
  /\ r.op = "withdraw"
  /\ Covered(r)
  /\ Changed(LAMBDA w, n : IF w = r.sender THEN -r.amounts[n] ELSE 0)
  /\ vouchers' = <<[payee |-> r.sender, amounts |-> r.amounts]>>

\* A transfer to oneself is refused, unless it moves nothing at all.
Transfer(r) ==
  /\ r.op = "transfer"
  /\ Covered(r)
  /\ r.sender = r.receiver => \A n \in Names : r.amounts[n] = 0
  /\ Changed(LAMBDA w, n : IF w = r.sender /\ w # r.receiver THEN -r.amounts[n]
                           ELSE IF w = r.receiver THEN r.amounts[n] ELSE 0)
  /\ vouchers' = <<>>

Perform ==
  /\ request # <<>> /\ request' = <<>>
  /\ \/ Deposit(request[1])
     \/ Withdraw(request[1])
     \/ Transfer(request[1])

Next == Ask \/ Refuse \/ Perform

Spec == Init /\ [][Next]_vars
=============================================================================
