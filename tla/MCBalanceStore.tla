--------------------------- MODULE MCBalanceStore ---------------------------
(***************************************************************************)
(* BalanceStore, with the vector of VirtualGrowth, on two assets, a token  *)
(* with an id and an id without a token, and three accounts, all wallets:  *)
(* three balances get a record, three are virtual.                         *)
(***************************************************************************)
EXTENDS VirtualGrowth

CONSTANTS alice, bob, carol, token, tokenId

MCWallets == {alice, bob, carol}
NoIds == {}
MCTokens == {token}
MCTokenIds == {tokenId}
MCWithdrawable == {0} \X AccountIds

MCHeaderOf ==
  [k \in MCWithdrawable |->
     [type |-> "TOKEN_ADDRESS_ID", owner |-> <<alice, bob, carol>>[k[2] + 1],
      token_address |-> token, token_id |-> tokenId]]
=============================================================================
