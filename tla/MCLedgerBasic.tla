---------------------------- MODULE MCLedgerBasic ----------------------------
(***************************************************************************)
(* A small instance of LedgerBasic.                                        *)
(***************************************************************************)
EXTENDS LedgerBasic

CONSTANTS alice, vault, token, tokenId

OneWallet  == {alice}
OneVault   == {vault}
OneToken   == {token}
OneTokenId == {tokenId}
=============================================================================
