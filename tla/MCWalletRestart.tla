--------------------------- MODULE MCWalletRestart ---------------------------
(***************************************************************************)
(* A small instance of WalletRestart.                                      *)
(***************************************************************************)
EXTENDS WalletRestart

CONSTANTS alice, token, id1

OneWallet  == {alice}
NoIds      == {}
OneToken   == {token}
OneTokenId == {id1}
=============================================================================
