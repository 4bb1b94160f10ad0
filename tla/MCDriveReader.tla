---------------------------- MODULE MCDriveReader ----------------------------
(***************************************************************************)
(* The reader between the calls of a small ledger: two wallets, accounts   *)
(* that are none, and two assets of three kinds.                           *)
(***************************************************************************)
EXTENDS DriveReader

CONSTANTS alice, bob, token, tokenId

TwoWallets == {alice, bob}
NoIds      == {}
OneToken   == {token}
OneId      == {tokenId}

MCIds == 0..2

\* Options on their own, none, and pairs whose order matters.
MCOptionLists ==
  {<<>>, <<"--total">>, <<"--dump">>, <<"--initialize">>, <<"--balance-index">>,
   <<"--dump-full-proof">>, <<"--help">>,
   <<"--total", "--dump">>, <<"--balance-index", "--dump-proof">>}
=============================================================================
