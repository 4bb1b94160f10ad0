--------------------------- MODULE MCLedgerMemory ---------------------------
(***************************************************************************)
(* Small instances of LedgerMemory: one wallet, whose 32 bytes are those   *)
(* of an account id too, accounts without bytes, one token and one id.     *)
(***************************************************************************)
EXTENDS LedgerMemory

CONSTANTS alice, token, tokenId

OneWallet  == {alice}
NoIds      == {}
OneToken   == {token}
OneTokenId == {tokenId}
=============================================================================
