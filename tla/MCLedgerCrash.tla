---------------------------- MODULE MCLedgerCrash ----------------------------
(***************************************************************************)
(* LedgerCrash on two assets, with and without a token id, and two         *)
(* accounts, one a wallet: two balances have a record and two are virtual. *)
(***************************************************************************)
EXTENDS LedgerCrash

CONSTANTS alice, token, tokenId

MCWallets == {alice}
None == {}
MCTokens == {token}
MCTokenIds == {tokenId}
MCWithdrawable == AssetIds \X {0}

\* A record of the one leaves an id behind that a record of the other would show.
MCHeaderOf ==
  [k \in MCWithdrawable |->
     [type |-> IF k[1] = 0 THEN "TOKEN_ADDRESS" ELSE "TOKEN_ADDRESS_ID", owner |-> alice,
      token_address |-> token, token_id |-> IF k[1] = 0 THEN Zero ELSE tokenId]]
=============================================================================
