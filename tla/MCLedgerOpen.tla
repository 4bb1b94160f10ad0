---------------------------- MODULE MCLedgerOpen ----------------------------
(***************************************************************************)
(* Sizes below 16.  Limits of 0 and 2 need 2 and 6 bytes.  One file is as  *)
(* long as the longer region, one is shorter than one of the offsets, one  *)
(* cannot be written and one is not there.                                 *)
(***************************************************************************)
EXTENDS LedgerOpen

AllFiles == {"large", "small", "read_only", "missing"}

Lengths == [large |-> 12, small |-> 3, read_only |-> 12, missing |-> -1]
=============================================================================
