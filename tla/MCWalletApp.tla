----------------------------- MODULE MCWalletApp -----------------------------
(***************************************************************************)
(* Two users and an id internal to the machine, with room for two of them  *)
(* to have accounts; ether, a token with one unit and a token with many.   *)
(***************************************************************************)
EXTENDS WalletApp

CONSTANTS alice, bob, vault, token, id1

TwoWallets == {alice, bob}
OneVault   == {vault}
OneToken   == {token}
OneTokenId == {id1}

\* Users are only compared with each other.
UserSymmetry == Permutations(TwoWallets)
=============================================================================
